---------------------------- MODULE Spec2Model ----------------------------
(***************************************************************************)
(* Front end of the EZ compiler: the preprocessor (core/preprocessor.rs)   *)
(* and the post-parse passes of parser.rs (keyword_checks, expand_inline). *)
(* Indices into the token list are 0-based as in the Rust source; At(s, k) *)
(* reads element k of a TLA+ sequence the way s[k] does in Rust.           *)
(***************************************************************************)
EXTENDS Integers, Sequences, FiniteSets

VARIABLES
    stage,      \* which pass the current behaviour exercises
    input,      \* the token list handed to preprocess (never modified)
    tokens,     \* preprocess: `tokens`
    i,          \* preprocess: cursor `i`
    ifs,        \* preprocess: stack `ifs` of Option<usize>
    declared,   \* preprocess: set `declared`
    result,     \* preprocess: what the call returned (or "Running")
    ast0,       \* parse: the AST produced by Parser::statements
    ast,        \* parse: the AST being checked and expanded
    pc,         \* parse: position inside parse()
    presult,    \* parse: what parse returned (or "Running")
    gast,       \* generate_code: the AST handed to it
    gen,        \* generate_code: instructions, returned values, result
    code,       \* optimize: the instruction list handed to it
    oi,         \* optimize: index of the next instruction of the loop
    optimized,  \* optimize: the list `optimized`
    known,      \* optimize: the map `vars` from slot to known value
    recorded,   \* optimize: per slot of `vars`, the input instruction that set it
    oresult     \* optimize: what the call returned (or "Running")

vars == <<stage, input, tokens, i, ifs, declared, result, ast0, ast, pc, presult,
          gast, gen, code, oi, optimized, known, recorded, oresult>>
prevars == <<input, tokens, i, ifs, declared, result>>
astvars == <<ast0, ast, pc, presult>>
genvars == <<gast, gen>>
optvars == <<code, oi, optimized, known, recorded, oresult>>

----------------------------------------------------------------------------
(* Bounds *)

MaxT == 2          \* longest T1 / T2 / REST of the conditional shapes
MaxGen == 3        \* longest unconstrained token list (before Eof)
MaxFuncs == 3      \* functions of a call-chain program
MaxDepth == 2      \* statement nesting of a nested program
MaxCode == 2       \* longest instruction list handed to optimize
MaxReuse == 3      \* longest instruction list whose blocks reuse offsets

----------------------------------------------------------------------------
(* Tokens.  A token is its token_type (kind, val) plus a position.         *)

PREPROCESSOR_STATEMENTS ==
    {"use", "replace", "declare", "ifdeclared", "else", "endif", "error"}

Tok(kind, val, file, pos) == [kind |-> kind, val |-> val, file |-> file, pos |-> pos]

\* impl PartialEq for Token: token_type only, position ignored
TokEq(a, b) == a.kind = b.kind /\ a.val = b.val

IsPre(t, name) == t.kind = "Pre" /\ t.val = name

At(s, k) == s[k + 1]

\* Vec::get(k)
HasIdx(s, k) == k >= 0 /\ k < Len(s)

\* Vec::drain(a..=b) / Vec::splice(a..=b, r); both panic unless a <= b + 1 and b < len
RangeOk(s, a, b) == a >= 0 /\ a <= b + 1 /\ b < Len(s)
Splice(s, a, b, r) == SubSeq(s, 1, a) \o r \o SubSeq(s, b + 2, Len(s))
Drain(s, a, b) == Splice(s, a, b, <<>>)

----------------------------------------------------------------------------
(* The lexer is not part of the sources; a string is modelled by the token *)
(* list it lexes to.  lex() ends every list with an Eof token and fails on *)
(* text it cannot tokenize.                                                *)

LexBody(s) ==
    CASE s = "b"    -> <<Tok("Op", "b", "lexed", 0)>>
      [] s = "b c"  -> <<Tok("Op", "b", "lexed", 0), Tok("Op", "c", "lexed", 1)>>
      [] s = "a b"  -> <<Tok("Op", "a", "lexed", 0), Tok("Op", "b", "lexed", 1)>>
      [] OTHER      -> <<>>

LexFails(s) == s = "'"

lex(s) == LexBody(s) \o <<Tok("Eof", "", "lexed", Len(LexBody(s)))>>

Strings == {"b", "b c"}
FileContents == {"b", "'"}

----------------------------------------------------------------------------
(* Results *)

Running == [kind |-> "Running", etype |-> "", details |-> ""]
Ok == [kind |-> "Ok", etype |-> "", details |-> ""]
Panic == [kind |-> "Panic", etype |-> "", details |-> ""]
Err(etype, details) == [kind |-> "Err", etype |-> etype, details |-> details]

\* Option<usize> entries of `ifs`: None = active frame, Some(n) = inactive since n
NoneIdx == [some |-> FALSE, n |-> 0]
SomeIdx(n) == [some |-> TRUE, n |-> n]

Last(s) == s[Len(s)]
Front(s) == SubSeq(s, 1, Len(s) - 1)
SetLast(s, v) == [s EXCEPT ![Len(s)] = v]

----------------------------------------------------------------------------
(* preprocess: one action per arm of the match inside the while loop       *)

AtDirective(name) ==
    /\ stage = "pre"
    /\ result.kind = "Running"
    /\ i < Len(tokens)
    /\ IsPre(At(tokens, i), name)

Fail(r) ==
    /\ result' = r
    /\ UNCHANGED <<tokens, i, ifs, declared>>

\* the else branch of `if let PreprocessorStatement = ...`: i += 1
Skip ==
    /\ stage = "pre"
    /\ result.kind = "Running"
    /\ i < Len(tokens)
    /\ At(tokens, i).kind # "Pre"
    /\ i' = i + 1
    /\ UNCHANGED <<input, tokens, ifs, declared, result, stage, astvars, genvars, optvars>>

\* "use": the file system and the text of the file are the environment's
Use ==
    /\ AtDirective("use")
    /\ IF ~HasIdx(tokens, i + 1)
         THEN Fail(Err("SyntaxError", "Expected a filename after use"))
         ELSE IF At(tokens, i + 1).kind \in {"Str", "Id"}
           THEN \E c \in FileContents \cup {"<unreadable>"} :
                  IF c = "<unreadable>"
                    THEN Fail(Err("FileNotFound", "Could not find file"))
                    ELSE IF LexFails(c)
                      THEN Fail(Err("InvalidLiteral", "lexer"))
                      ELSE /\ tokens' = Splice(tokens, i, i + 1, Front(lex(c)))
                           /\ UNCHANGED <<i, ifs, declared, result>>
           ELSE Fail(Err("SyntaxError", "Expected a filename after use"))
    /\ UNCHANGED <<input, stage, astvars, genvars, optvars>>

\* the replacement sequence built at lines 74-95
ReplacementNoEof(t) == IF t.kind = "Str" THEN Front(lex(t.val)) ELSE <<t>>
Replacement(t) == IF t.kind = "Str" THEN lex(t.val) ELSE <<t>>

\* for i in 0..tokens.len() { if tokens[i] == find { tokens.splice(i..=i, replace) } }
\* the range is evaluated once: n is the length before the loop
RECURSIVE ReplaceLoop(_, _, _, _, _)
ReplaceLoop(toks, k, n, find, repl) ==
    IF k >= n THEN [ok |-> TRUE, toks |-> toks]
    ELSE IF ~HasIdx(toks, k) THEN [ok |-> FALSE, toks |-> toks]
    ELSE IF TokEq(At(toks, k), find)
           THEN ReplaceLoop(Splice(toks, k, k, repl), k + 1, n, find, repl)
           ELSE ReplaceLoop(toks, k + 1, n, find, repl)

Replace ==
    /\ AtDirective("replace")
    /\ IF ~HasIdx(tokens, i + 1)
         THEN Fail(Err("SyntaxError", "Expected find element replace"))
         ELSE IF ~HasIdx(tokens, i + 2)
           THEN Fail(Err("SyntaxError", "Expected replace element replace"))
           ELSE LET find == At(tokens, i + 1)
                    t == At(tokens, i + 2)
                IN  IF t.kind = "Str" /\ LexFails(t.val)
                      THEN Fail(Err("InvalidLiteral", "lexer"))
                      ELSE LET drained == Drain(tokens, i, i + 2)
                               r == ReplaceLoop(drained, 0, Len(drained), find, Replacement(t))
                           IN  IF r.ok
                                 THEN /\ tokens' = r.toks
                                      /\ UNCHANGED <<i, ifs, declared, result>>
                                 ELSE /\ tokens' = r.toks
                                      /\ result' = Panic
                                      /\ UNCHANGED <<i, ifs, declared>>
    /\ UNCHANGED <<input, stage, astvars, genvars, optvars>>

Declare ==
    /\ AtDirective("declare")
    /\ IF ~HasIdx(tokens, i + 1)
         THEN Fail(Err("SyntaxError", "Expected an identifier after declare"))
         ELSE IF At(tokens, i + 1).kind = "Id"
           THEN /\ declared' = declared \cup {At(tokens, i + 1).val}
                /\ tokens' = Drain(tokens, i, i + 1)
                /\ UNCHANGED <<i, ifs, result>>
           ELSE Fail(Err("SyntaxError", "Expected an identifier after declare"))
    /\ UNCHANGED <<input, stage, astvars, genvars, optvars>>

\* the frame pushed by ifdeclared at cursor k
NewFrame(decl, ident, k) == IF ident \in decl THEN NoneIdx ELSE SomeIdx(k)

IfDeclared ==
    /\ AtDirective("ifdeclared")
    /\ IF ~HasIdx(tokens, i + 1)
         THEN Fail(Err("SyntaxError", "Expected an identifier after declare"))
         ELSE IF At(tokens, i + 1).kind = "Id"
           THEN /\ ifs' = Append(ifs, NewFrame(declared, At(tokens, i + 1).val, i))
                /\ tokens' = Drain(tokens, i, i + 1)
                /\ UNCHANGED <<i, declared, result>>
           ELSE Fail(Err("SyntaxError", "Expected an identifier after declare"))
    /\ UNCHANGED <<input, stage, astvars, genvars, optvars>>

\* what `else` does to the token list and to the innermost frame at cursor k
ElseTokens(toks, frame, k) ==
    IF frame.some THEN Drain(toks, frame.n, k) ELSE Drain(toks, k, k)
ElseFrame(frame, k) == IF frame.some THEN NoneIdx ELSE SomeIdx(k)

Else ==
    /\ AtDirective("else")
    /\ IF ifs = <<>>
         THEN Fail(Err("SyntaxError", "else without ifdeclared"))
         ELSE IF Last(ifs).some /\ ~RangeOk(tokens, Last(ifs).n, i)
           THEN Fail(Panic)
           ELSE /\ tokens' = ElseTokens(tokens, Last(ifs), i)
                /\ ifs' = SetLast(ifs, ElseFrame(Last(ifs), i))
                /\ UNCHANGED <<i, declared, result>>
    /\ UNCHANGED <<input, stage, astvars, genvars, optvars>>

\* what `endif` does to the token list, given the popped frame, at cursor k
\* (EndifTokensKeepRegion: the slip of removing only the endif token)
EndifTokensKeepRegion(toks, frame, k) == Drain(toks, k, k)
EndifTokens(toks, frame, k) ==
    IF frame.some THEN Drain(toks, frame.n, k) ELSE Drain(toks, k, k)

Endif ==
    /\ AtDirective("endif")
    /\ IF ifs = <<>>
         THEN Fail(Err("SyntaxError", "endif without ifdeclared"))
         ELSE IF Last(ifs).some /\ ~RangeOk(tokens, Last(ifs).n, i)
           THEN /\ result' = Panic
                /\ ifs' = Front(ifs)
                /\ UNCHANGED <<tokens, i, declared>>
           ELSE /\ tokens' = EndifTokens(tokens, Last(ifs), i)
                /\ ifs' = Front(ifs)
                /\ UNCHANGED <<i, declared, result>>
    /\ UNCHANGED <<input, stage, astvars, genvars, optvars>>

\* matches!(ifs.last(), Some(None) | None)
ErrorFires(stack) == stack = <<>> \/ ~Last(stack).some

ErrorDirective ==
    /\ AtDirective("error")
    /\ IF ~HasIdx(tokens, i + 1)
         THEN Fail(Err("SyntaxError", "Expected an error message after error"))
         ELSE IF At(tokens, i + 1).kind # "Str"
           THEN Fail(Err("SyntaxError", "Expected an error message after error"))
           ELSE /\ tokens' = Drain(tokens, i, i + 1)
                /\ result' = IF ErrorFires(ifs)
                               THEN IF HasIdx(Drain(tokens, i, i + 1), i)
                                      THEN Err("PreprocessorError", At(tokens, i + 1).val)
                                      ELSE Panic
                               ELSE result
                /\ UNCHANGED <<i, ifs, declared>>
    /\ UNCHANGED <<input, stage, astvars, genvars, optvars>>

\* after the loop: lines 226-234
Finish ==
    /\ stage = "pre"
    /\ result.kind = "Running"
    /\ i >= Len(tokens)
    /\ IF ifs # <<>>
         THEN /\ ifs' = Front(ifs)
              /\ result' = IF HasIdx(tokens, i - 1)
                             THEN Err("SyntaxError", "No endif after ifdeclared")
                             ELSE Panic
         ELSE /\ ifs' = ifs
              /\ result' = Ok
    /\ UNCHANGED <<input, tokens, i, declared, stage, astvars, genvars, optvars>>

----------------------------------------------------------------------------
(* AST nodes (the Node enum as parser.rs matches it).  A node is a record  *)
(* kind / name / inl / params / ty / kids: name is the token of the node   *)
(* (operator, variable, function), inl the inline flag of a FuncDef,       *)
(* params its parameters, ty its return or declared type, kids the child   *)
(* nodes in field order.  Positions are left out.                          *)

Node(kind, name, kids) ==
    [kind |-> kind, name |-> name, inl |-> FALSE, params |-> <<>>, ty |-> "", kids |-> kids]

NoneNode == Node("None", "", <<>>)
Number == Node("Number", "1", <<>>)
Boolean == Node("Boolean", "true", <<>>)
VarAccess(x) == Node("VarAccess", x, <<>>)
Call(f, args) == Node("Call", f, args)
Return(e) == Node("Return", "", <<e>>)
Statements(nodes) == Node("Statements", "", nodes)
VarAssign(x, e, ty) == [Node("VarAssign", x, <<e>>) EXCEPT !.ty = ty]
FuncDef(f, params, body, ret, inline) ==
    [kind |-> "FuncDef", name |-> f, inl |-> inline, params |-> params, ty |-> ret,
     kids |-> <<body>>]
Lambda(params, body, ret) ==
    [kind |-> "Lambda", name |-> "", inl |-> FALSE, params |-> params, ty |-> ret,
     kids |-> <<body>>]
Expanded(nodes, ret) == [Node("Expanded", "", nodes) EXCEPT !.ty = ret]

Param(x, ty) == [name |-> x, ty |-> ty]

EmptyAst == Statements(<<>>)

\* generate_code and optimize not called
NoGen ==
    [instructions |-> <<>>, returned |-> <<>>, ret |-> <<>>, rets |-> <<>>, result |-> Running]
IrIdle ==
    /\ gast = [ast |-> EmptyAst, statics |-> <<>>]
    /\ gen = NoGen
    /\ code = <<>>
    /\ oi = 0
    /\ optimized = <<>>
    /\ known = <<>>
    /\ recorded = <<>>
    /\ oresult = Running

\* kinds without child nodes
LeafKinds == {"Struct", "VarAccess", "String", "Number", "Boolean", "Input", "None", "Char"}

\* kinds whose child nodes every traversal visits in order
InnerKinds == {"BinaryOp", "IndexAssign", "While", "DerefAssign", "For", "UnaryOp",
               "VarAssign", "VarReassign", "Statements", "StructConstructor", "Ternary",
               "If", "Index", "Return", "Ref", "Deref", "Print", "Ascii"}

----------------------------------------------------------------------------
(* keyword_checks                                                          *)

\* a check that looks at the node itself and never below it
check_return_shallow(node) == node.kind = "Return"

\* check_return(node).is_some()
RECURSIVE check_return(_)
check_return(node) ==
    CASE node.kind \in {"BinaryOp", "IndexAssign", "While", "DerefAssign", "For",
                        "UnaryOp", "VarAssign", "VarReassign", "Statements",
                        "StructConstructor", "Ternary", "If", "Call", "Index",
                        "Ref", "Deref", "Print", "Ascii"}
            -> \E k \in 1..Len(node.kids) : check_return(node.kids[k])
      [] node.kind \in {"FuncDef", "Lambda"} -> FALSE
      [] node.kind = "Return" -> TRUE
      [] node.kind = "Array" -> FALSE
      [] node.kind \in LeafKinds -> FALSE

\* keyword_checks(ast).is_some(): the root is a Statements node
keyword_checks(root) ==
    \E k \in 1..Len(root.kids) : check_return(root.kids[k])

----------------------------------------------------------------------------
(* expand_inline                                                           *)

NoFuncs == [some |-> FALSE, list |-> <<>>]
SomeFuncs(l) == [some |-> TRUE, list |-> l]

RECURSIVE find_functions(_)

\* the arms that return the first Some among the children, in order
RECURSIVE FirstSome(_, _)
FirstSome(kids, k) ==
    IF k > Len(kids) THEN NoFuncs
    ELSE IF find_functions(kids[k]).some THEN find_functions(kids[k])
    ELSE FirstSome(kids, k + 1)

\* the Statements arm: append every Some
RECURSIVE AllSome(_, _)
AllSome(kids, k) ==
    IF k > Len(kids) THEN <<>>
    ELSE (IF find_functions(kids[k]).some THEN find_functions(kids[k]).list ELSE <<>>)
            \o AllSome(kids, k + 1)

find_functions(node) ==
    CASE node.kind = "FuncDef" /\ node.inl
            -> SomeFuncs((IF find_functions(node.kids[1]).some
                            THEN find_functions(node.kids[1]).list ELSE <<>>) \o <<node>>)
      [] node.kind = "Statements" -> SomeFuncs(AllSome(node.kids, 1))
      [] node.kind \in (InnerKinds \ {"Statements"}) \cup {"Call", "Array", "Lambda"}
            -> FirstSome(node.kids, 1)
      [] node.kind = "FuncDef" /\ ~node.inl -> find_functions(node.kids[1])
      [] node.kind \in LeafKinds -> NoFuncs

\* a removal that takes the direct FuncDef children whatever their flag
remove_every_funcdef(node) ==
    [node EXCEPT !.kids = [k \in 1..Len(node.kids) |->
        IF node.kids[k].kind = "FuncDef" THEN NoneNode ELSE node.kids[k]]]

RECURSIVE remove_inline(_)
remove_inline(node) ==
    CASE node.kind = "FuncDef" /\ node.inl -> NoneNode
      [] node.kind \in InnerKinds \cup {"Call", "Array", "Lambda"}
            \/ (node.kind = "FuncDef" /\ ~node.inl)
            -> [node EXCEPT !.kids = [k \in 1..Len(node.kids) |-> remove_inline(node.kids[k])]]
      [] node.kind \in LeafKinds -> node

\* functions.iter().find(|f| name matches): index of the first match, 0 if none
FindFunc(functions, name) ==
    IF \E k \in 1..Len(functions) :
          functions[k].kind = "FuncDef" /\ functions[k].name = name
      THEN CHOOSE k \in 1..Len(functions) :
              /\ functions[k].kind = "FuncDef" /\ functions[k].name = name
              /\ \A j \in 1..(k - 1) :
                    ~(functions[j].kind = "FuncDef" /\ functions[j].name = name)
      ELSE 0

Min(a, b) == IF a < b THEN a ELSE b

\* the Call arm of insert_function, callee found
ExpandCall(func, args) ==
    Expanded([k \in 1..Min(Len(func.params), Len(args)) |->
                 VarAssign(func.params[k].name, args[k], func.params[k].ty)]
             \o <<func.kids[1]>>,
             func.ty)

RECURSIVE insert_function(_, _)
insert_function(functions, node) ==
    CASE node.kind = "Call"
            -> IF FindFunc(functions, node.name) = 0
                 THEN node
                 ELSE ExpandCall(functions[FindFunc(functions, node.name)], node.kids)
      [] node.kind \in InnerKinds \cup {"Array", "Lambda", "FuncDef"}
            -> [node EXCEPT !.kids =
                   [k \in 1..Len(node.kids) |-> insert_function(functions, node.kids[k])]]
      [] node.kind \in LeafKinds -> node

\* expand_inline(ast, functions): the AST it leaves in *ast
RECURSIVE expand_inline(_, _)
expand_inline(node, functions) ==
    LET found == find_functions(node)
        functions2 == [k \in 1..Len(found.list) |->
                          [found.list[k] EXCEPT !.kids =
                              <<expand_inline(found.list[k].kids[1],
                                              functions \o found.list)>>]]
    IN  IF found.some
          THEN insert_function(functions \o functions2, remove_inline(node))
          ELSE insert_function(functions, node)

----------------------------------------------------------------------------
(* Inputs of preprocess: token lists as the lexer produces them, that is,  *)
(* ending with the only Eof token; token k carries position k.             *)

TT(kind, val) == [kind |-> kind, val |-> val]

Directives == {TT("Pre", d) : d \in PREPROCESSOR_STATEMENTS}
PlainTypes == {TT("Op", "a"), TT("Id", "X")}
CondTypes == {TT("Pre", d) : d \in {"declare", "ifdeclared", "else", "endif", "error"}}
                \cup {TT("Id", "X"), TT("Str", "b"), TT("Op", "a")}
GenTypes == Directives \cup {TT("Id", "X"), TT("Str", "b c"), TT("Op", "a")}

SeqsUpTo(S, n) == UNION {[1..k -> S] : k \in 0..n}

MkInput(types) ==
    [k \in 1..(Len(types) + 1) |->
        IF k <= Len(types)
          THEN Tok(types[k].kind, types[k].val, "main", k - 1)
          ELSE Tok("Eof", "", "main", k - 1)]

\* [declare X, ifdeclared X, T1, else, T2, endif, REST]
ShapeDeclared ==
    {<<TT("Pre", "declare"), TT("Id", "X"), TT("Pre", "ifdeclared"), TT("Id", "X")>>
        \o t1 \o <<TT("Pre", "else")>> \o t2 \o <<TT("Pre", "endif")>> \o rest :
     t1 \in SeqsUpTo(PlainTypes, MaxT), t2 \in SeqsUpTo(PlainTypes, MaxT),
     rest \in SeqsUpTo(PlainTypes, MaxT)}

\* [ifdeclared X, T1, else, T2, endif, REST]
ShapeUndeclared ==
    {<<TT("Pre", "ifdeclared"), TT("Id", "X")>>
        \o t1 \o <<TT("Pre", "else")>> \o t2 \o <<TT("Pre", "endif")>> \o rest :
     t1 \in SeqsUpTo(PlainTypes, MaxT), t2 \in SeqsUpTo(PlainTypes, MaxT),
     rest \in SeqsUpTo(PlainTypes, MaxT)}

\* [ifdeclared X, anything]
ShapeCond ==
    {<<TT("Pre", "ifdeclared"), TT("Id", "X")>> \o body :
     body \in SeqsUpTo(CondTypes, MaxGen + 1)}

\* [replace F R, operands]
ShapeReplace ==
    {<<TT("Pre", "replace"), f, r>> \o body :
     f \in {TT("Op", "a"), TT("Id", "X")},
     r \in {TT("Op", "c"), TT("Op", "a"), TT("Str", "b"), TT("Str", "b c"), TT("Str", "a b")},
     body \in SeqsUpTo(PlainTypes, MaxGen)}

ShapeAny == SeqsUpTo(GenTypes, MaxGen)

\* [ifdeclared X, ifdeclared X, else, anything]: a conditional inside the
\* dropped region of another one
ShapeNested ==
    {<<TT("Pre", "ifdeclared"), TT("Id", "X"), TT("Pre", "ifdeclared"), TT("Id", "X"),
       TT("Pre", "else")>> \o body :
     body \in SeqsUpTo(CondTypes, MaxT)}

Inputs == {MkInput(ts) : ts \in ShapeDeclared \cup ShapeUndeclared \cup ShapeCond
                                  \cup ShapeReplace \cup ShapeAny \cup ShapeNested}


InitPre ==
    /\ stage = "pre"
    /\ input \in Inputs
    /\ tokens = input
    /\ i = 0
    /\ ifs = <<>>
    /\ declared = {}
    /\ result = Running
    /\ ast0 = EmptyAst
    /\ ast = EmptyAst
    /\ pc = "idle"
    /\ presult = Running
    /\ IrIdle

NextPre ==
    \/ Skip
    \/ Use
    \/ Replace
    \/ Declare
    \/ IfDeclared
    \/ Else
    \/ Endif
    \/ ErrorDirective
    \/ Finish

SpecPre == InitPre /\ [][NextPre]_vars

----------------------------------------------------------------------------
(* Reference readings of a token list, used to state the claims            *)

Done == stage = "pre" /\ result.kind # "Running"

DirIdx(inp) == {k \in 1..Len(inp) : inp[k].kind = "Pre"}

NoRewrite(inp) == \A k \in 1..Len(inp) : ~IsPre(inp[k], "use") /\ ~IsPre(inp[k], "replace")

\* positions of the else and the endif of a one-conditional stream whose
\* directives are exactly those in `fixed`, an else and a later endif
ElsePos(inp) == CHOOSE p \in 1..Len(inp) : IsPre(inp[p], "else")
EndifPos(inp) == CHOOSE q \in 1..Len(inp) : IsPre(inp[q], "endif")

OneConditional(inp, fixed) ==
    \E p, q \in 1..Len(inp) :
        /\ p < q
        /\ IsPre(inp[p], "else")
        /\ IsPre(inp[q], "endif")
        /\ DirIdx(inp) = fixed \cup {p, q}

ShapeC1(inp) ==
    /\ Len(inp) >= 6
    /\ IsPre(inp[1], "declare") /\ inp[2].kind = "Id"
    /\ IsPre(inp[3], "ifdeclared") /\ inp[4].kind = "Id" /\ inp[4].val = inp[2].val
    /\ OneConditional(inp, {1, 3})

ShapeC2(inp) ==
    /\ Len(inp) >= 4
    /\ IsPre(inp[1], "ifdeclared") /\ inp[2].kind = "Id"
    /\ OneConditional(inp, {1})

ThenPart(inp, from) == SubSeq(inp, from, ElsePos(inp) - 1)
ElsePart(inp) == SubSeq(inp, ElsePos(inp) + 1, EndifPos(inp) - 1)
RestPart(inp) == SubSeq(inp, EndifPos(inp) + 1, Len(inp))

\* nesting of the conditional directives of a stream, the token after
\* declare / ifdeclared / error being that directive's argument
RECURSIVE Nesting(_, _, _)
Nesting(inp, k, depth) ==
    IF k > Len(inp) THEN (IF depth = 0 THEN "Balanced" ELSE "Unterminated")
    ELSE IF IsPre(inp[k], "ifdeclared") \/ IsPre(inp[k], "declare")
      THEN IF k + 1 <= Len(inp) /\ inp[k + 1].kind = "Id"
             THEN Nesting(inp, k + 2, IF IsPre(inp[k], "ifdeclared") THEN depth + 1 ELSE depth)
             ELSE "BadArg"
    ELSE IF IsPre(inp[k], "error")
      THEN IF k + 1 <= Len(inp) /\ inp[k + 1].kind = "Str"
             THEN Nesting(inp, k + 2, depth)
             ELSE "BadArg"
    ELSE IF IsPre(inp[k], "else")
      THEN IF depth = 0 THEN "Stray" ELSE Nesting(inp, k + 1, depth)
    ELSE IF IsPre(inp[k], "endif")
      THEN IF depth = 0 THEN "Stray" ELSE Nesting(inp, k + 1, depth - 1)
    ELSE Nesting(inp, k + 1, depth)

HasErrorDirective(inp) == \E k \in 1..Len(inp) : IsPre(inp[k], "error")

\* the message of the first error directive met while no frame is open or
\* the innermost open frame is active, "" when there is none before the
\* stream ends or stops being well formed
RECURSIVE FirstActiveError(_, _, _, _)
FirstActiveError(inp, k, decl, stack) ==
    IF k > Len(inp) THEN ""
    ELSE IF IsPre(inp[k], "use") \/ IsPre(inp[k], "replace") THEN ""
    ELSE IF IsPre(inp[k], "declare")
      THEN IF k + 1 <= Len(inp) /\ inp[k + 1].kind = "Id"
             THEN FirstActiveError(inp, k + 2, decl \cup {inp[k + 1].val}, stack)
             ELSE ""
    ELSE IF IsPre(inp[k], "ifdeclared")
      THEN IF k + 1 <= Len(inp) /\ inp[k + 1].kind = "Id"
             THEN FirstActiveError(inp, k + 2, decl, Append(stack, inp[k + 1].val \in decl))
             ELSE ""
    ELSE IF IsPre(inp[k], "else")
      THEN IF stack = <<>> THEN ""
           ELSE FirstActiveError(inp, k + 1, decl, SetLast(stack, ~Last(stack)))
    ELSE IF IsPre(inp[k], "endif")
      THEN IF stack = <<>> THEN ""
           ELSE FirstActiveError(inp, k + 1, decl, Front(stack))
    ELSE IF IsPre(inp[k], "error")
      THEN IF k + 1 <= Len(inp) /\ inp[k + 1].kind = "Str"
             THEN IF stack = <<>> \/ Last(stack)
                    THEN inp[k + 1].val
                    ELSE FirstActiveError(inp, k + 2, decl, stack)
             ELSE ""
    ELSE FirstActiveError(inp, k + 1, decl, stack)

\* every token equal to find replaced by the sequence repl
RECURSIVE Subst(_, _, _)
Subst(s, find, repl) ==
    IF s = <<>> THEN <<>>
    ELSE (IF TokEq(Head(s), find) THEN repl ELSE <<Head(s)>>) \o Subst(Tail(s), find, repl)

ReplaceApplies ==
    /\ AtDirective("replace")
    /\ HasIdx(tokens, i + 2)
    /\ ~(At(tokens, i + 2).kind = "Str" /\ LexFails(At(tokens, i + 2).val))

----------------------------------------------------------------------------
(* Claims about preprocess                                                 *)

\* C1: for [declare X, ifdeclared X, T1, else, T2, endif, REST] with no
\* directive in T1, T2, REST, preprocess returns Ok with exactly T1 \o REST.
C1_DeclaredKeepsThen ==
    (Done /\ ShapeC1(input)) =>
        /\ result = Ok
        /\ tokens = ThenPart(input, 5) \o RestPart(input)

C1_Witness ==
    /\ Done /\ ShapeC1(input) /\ result = Ok
    /\ Len(ThenPart(input, 5)) = 1
    /\ Len(ElsePart(input)) = 2
    /\ Len(RestPart(input)) > 1

\* C2: for [ifdeclared X, T1, else, T2, endif, REST] with X undeclared,
\* preprocess returns Ok with exactly T2 \o REST, whatever the lengths.
C2_UndeclaredKeepsElse ==
    (Done /\ ShapeC2(input)) =>
        /\ result = Ok
        /\ tokens = ElsePart(input) \o RestPart(input)

\* C3: an accepted input has matched ifdeclared / else / endif directives;
\* a stray else or endif is never accepted.
C3_AcceptedIsBalanced ==
    (Done /\ result = Ok /\ NoRewrite(input)) => Nesting(input, 1, 0) = "Balanced"

\* C4: an input with an ifdeclared that is never closed is rejected with
\* SyntaxError, returned as a value.
C4_UnterminatedIsSyntaxError ==
    (Done /\ NoRewrite(input) /\ ~HasErrorDirective(input)
          /\ Nesting(input, 1, 0) = "Unterminated") =>
        (result.kind = "Err" /\ result.etype = "SyntaxError")

\* C5: an error directive met where no frame is open or the innermost frame
\* is active makes preprocess return PreprocessorError with its string.
C5_ActiveErrorFires ==
    (Done /\ FirstActiveError(input, 1, {}, <<>>) # "") =>
        result = Err("PreprocessorError", FirstActiveError(input, 1, {}, <<>>))

\* C6: replace F R removes the three directive tokens and replaces every
\* token equal to F by the replacement sequence (R, or the tokens lexed
\* from the string R without the trailing Eof); in particular, when the
\* replacement sequence holds no token equal to F, none remains afterwards.
C6_NoFindRemains ==
    [][(ReplaceApplies
         /\ \A k \in 1..Len(ReplacementNoEof(At(tokens, i + 2))) :
               ~TokEq(ReplacementNoEof(At(tokens, i + 2))[k], At(tokens, i + 1)))
        => \A k \in 1..Len(tokens') : ~TokEq(tokens'[k], At(tokens, i + 1))]_vars

\* C6, first half: the resulting list is the substitution of the
\* replacement sequence for every occurrence of F.
C6_ReplaceSubstitutesAll ==
    [][ReplaceApplies =>
         tokens' = Subst(Drain(tokens, i, i + 2), At(tokens, i + 1),
                         ReplacementNoEof(At(tokens, i + 2)))]_vars

----------------------------------------------------------------------------
(* parse(), from the point where Parser::statements and check_undefined    *)
(* have succeeded: keyword_checks, then expand_inline.                     *)

KeywordChecks ==
    /\ stage = "parse"
    /\ pc = "keyword_checks"
    /\ IF keyword_checks(ast)
         THEN /\ presult' = Err("InvalidReturn", "Return statement cannot be in the global scope")
              /\ pc' = "done"
         ELSE /\ presult' = presult
              /\ pc' = "expand_inline"
    /\ UNCHANGED <<stage, ast0, ast, prevars, genvars, optvars>>

ExpandInline ==
    /\ stage = "parse"
    /\ pc = "expand_inline"
    /\ ast' = expand_inline(ast, <<>>)
    /\ presult' = Ok
    /\ pc' = "done"
    /\ UNCHANGED <<stage, ast0, prevars, genvars, optvars>>

----------------------------------------------------------------------------
(* ASTs the parser produces: every Return is a statement, every name used  *)
(* is defined in an enclosing scope.                                       *)

AllNames == <<"h", "g", "f", "e", "d">>

If2(c, t) == Node("If", "", <<c, t>>)
If3(c, t, e) == Node("If", "", <<c, t, e>>)
While(c, b) == Node("While", "", <<c, b>>)
For(a, c, st, b) == Node("For", "", <<a, c, st, b>>)
PrintNode(nodes) == Node("Print", "", nodes)
Array(nodes) == Node("Array", "", nodes)
BinaryOp(op, l, r) == Node("BinaryOp", op, <<l, r>>)
VarReassign(x, e) == Node("VarReassign", x, <<e>>)

\* h, g, f, ... each with one parameter and a body `{ return <e>; }`, then
\* one statement calling the last of them
ChainBodies(n) == {Number} \cup {Call(AllNames[k], <<Number>>) : k \in 1..n}
ChainDef(k, inline, e) ==
    FuncDef(AllNames[k], <<Param("p", "int")>>, Statements(<<Return(e)>>), "int", inline)
ChainMains(n) ==
    {VarAssign("y", Call(AllNames[n], <<Number>>), "int"),
     VarAssign("y", Call(AllNames[n], <<Call(AllNames[1], <<Number>>)>>), "int")}
ChainPrograms(n) ==
    {Statements([k \in 1..n |-> ChainDef(k, fl[k], bd[k])] \o <<m>>) :
        fl \in [1..n -> BOOLEAN], bd \in [1..n -> ChainBodies(n)], m \in ChainMains(n)}

\* a block that defines a function and calls it
DefCall(inline) ==
    Statements(<<FuncDef("d", <<>>, Statements(<<Return(Number)>>), "int", inline),
                 VarAssign("y", Call("d", <<>>), "int")>>)

NestLeaves == {Return(Number), VarAssign("x", Number, "int"), DefCall(TRUE), DefCall(FALSE)}

\* the statements and expressions that can hold the statement s
Wrap(s, d) ==
    {Statements(<<s>>),
     If2(Boolean, s),
     If3(Boolean, s, Statements(<<>>)),
     If3(Boolean, Statements(<<>>), s),
     While(Boolean, s),
     For(VarAssign("k", Number, "int"), Boolean, VarReassign("k", Number), s),
     FuncDef(AllNames[d], <<>>, s, "int", FALSE),
     FuncDef(AllNames[d], <<>>, s, "int", TRUE),
     VarAssign("l", Lambda(<<>>, s, "int"), "fn"),
     PrintNode(<<Array(<<Number, Lambda(<<>>, s, "int")>>)>>)}

RECURSIVE Nest(_)
Nest(d) == IF d = 0 THEN NestLeaves
           ELSE Nest(d - 1) \cup UNION {Wrap(s, d) : s \in Nest(d - 1)}

NestPrograms == {Statements(<<VarAssign("x", Number, "int"), s>>) : s \in Nest(MaxDepth)}

\* one node of every kind around an expression
ExprWraps(e) ==
    {e,
     BinaryOp("+", e, Number), BinaryOp("*", Number, e),
     Node("UnaryOp", "-", <<e>>),
     Node("Index", "a", <<e>>),
     Node("Ref", "", <<e>>), Node("Deref", "", <<e>>),
     Node("Ternary", "", <<e, Number, Number>>),
     Node("Ternary", "", <<Boolean, Number, e>>),
     Array(<<Number, e>>),
     Node("StructConstructor", "S", <<Number, e>>),
     Call("g", <<e>>),
     Node("String", "s", <<>>), Node("Char", "c", <<>>), Node("Input", "", <<>>)}

StmtWraps(e) ==
    {VarAssign("y", w, "int") : w \in ExprWraps(e)}
      \cup {VarReassign("x", e), PrintNode(<<Number, e>>), Node("Ascii", "", <<e>>),
            Node("IndexAssign", "a", <<e, Number>>), Node("IndexAssign", "a", <<Number, e>>),
            Node("DerefAssign", "", <<VarAccess("x"), e>>),
            Node("DerefAssign", "", <<e, Number>>),
            While(e, Statements(<<>>)), If2(e, Statements(<<>>)),
            For(VarAssign("k", e, "int"), Boolean, VarReassign("k", e), Statements(<<>>)),
            Node("Struct", "S", <<>>)}

ExprPrograms ==
    {Statements(<<ChainDef(3, fl, VarAccess("p")), ChainDef(2, FALSE, VarAccess("p")), st>>) :
        fl \in BOOLEAN, st \in StmtWraps(Call("f", <<Number>>))}

Asts == ChainPrograms(MaxFuncs) \cup NestPrograms \cup ExprPrograms

InitParse ==
    /\ stage = "parse"
    /\ ast0 \in Asts
    /\ ast = ast0
    /\ pc = "keyword_checks"
    /\ presult = Running
    /\ input = <<>>
    /\ tokens = <<>>
    /\ i = 0
    /\ ifs = <<>>
    /\ declared = {}
    /\ result = Running
    /\ IrIdle

NextParse ==
    \/ KeywordChecks
    \/ ExpandInline

SpecParse == InitParse /\ [][NextParse]_vars

----------------------------------------------------------------------------
(* Reference readings of an AST, used to state the claims                  *)

RECURSIVE InlineNames(_)
InlineNames(node) ==
    (IF node.kind = "FuncDef" /\ node.inl THEN {node.name} ELSE {})
      \cup UNION {InlineNames(node.kids[k]) : k \in 1..Len(node.kids)}

RECURSIVE CallNames(_)
CallNames(node) ==
    (IF node.kind = "Call" THEN {node.name} ELSE {})
      \cup UNION {CallNames(node.kids[k]) : k \in 1..Len(node.kids)}

RECURSIVE Kinds(_)
Kinds(node) == {node.kind} \cup UNION {Kinds(node.kids[k]) : k \in 1..Len(node.kids)}

\* a Return that no FuncDef or Lambda encloses
RECURSIVE BareReturn(_)
BareReturn(node) ==
    \/ node.kind = "Return"
    \/ /\ node.kind \notin {"FuncDef", "Lambda"}
       /\ \E k \in 1..Len(node.kids) : BareReturn(node.kids[k])

\* inline functions called from the body of an inline function named n
RECURSIVE InlineCallees(_, _)
InlineCallees(node, n) ==
    (IF node.kind = "FuncDef" /\ node.inl /\ node.name = n
       THEN CallNames(node.kids[1]) ELSE {})
      \cup UNION {InlineCallees(node.kids[k], n) : k \in 1..Len(node.kids)}

RECURSIVE ReachFrom(_, _, _)
ReachFrom(root, seen, fuel) ==
    IF fuel = 0 THEN seen
    ELSE ReachFrom(root,
                   seen \cup ((UNION {InlineCallees(root, n) : n \in seen})
                                 \cap InlineNames(root)),
                   fuel - 1)

InlineRecursion(root) ==
    \E n \in InlineNames(root) :
        n \in ReachFrom(root, InlineCallees(root, n) \cap InlineNames(root),
                        Cardinality(InlineNames(root)))

ParseDone == stage = "parse" /\ pc = "done"

----------------------------------------------------------------------------
(* Claims about keyword_checks and expand_inline                           *)

\* C7: after expand_inline the AST holds no Call whose target is the name
\* of an inline function definition of the program.
C7_NoCallToInline ==
    (ParseDone /\ presult = Ok) => CallNames(ast) \cap InlineNames(ast0) = {}

\* C8: a program in which an inline function calls itself, directly or
\* through other inline functions, is rejected with RecursionError.
C8_InlineRecursionRejected ==
    (ParseDone /\ ~BareReturn(ast0) /\ InlineRecursion(ast0)) =>
        (presult.kind = "Err" /\ presult.etype = "RecursionError")

\* C9: an AST with no inline function definition comes out of
\* expand_inline structurally identical (nothing becomes None or Expanded).
C9_NoInlineUnchanged ==
    (ParseDone /\ presult = Ok /\ InlineNames(ast0) = {}) => ast = ast0

C9_Witness ==
    /\ ParseDone /\ presult = Ok /\ InlineNames(ast0) = {}
    /\ "FuncDef" \in Kinds(ast0)
    /\ "Call" \in Kinds(ast0)
    /\ "Lambda" \in Kinds(ast0)

\* C10: keyword_checks fails with InvalidReturn exactly when some Return
\* lies outside every function definition and lambda.
C10_InvalidReturnIffBare ==
    ParseDone =>
        ((presult.kind = "Err" /\ presult.etype = "InvalidReturn")
            <=> \E k \in 1..Len(ast0.kids) : BareReturn(ast0.kids[k]))

\* a rejected return two levels below the top-level statement
C10_WitnessRejected ==
    /\ ParseDone /\ presult.kind = "Err" /\ presult.etype = "InvalidReturn"
    /\ \E k \in 1..Len(ast0.kids) :
          /\ ast0.kids[k].kind = "If"
          /\ Len(ast0.kids[k].kids) = 3
          /\ ast0.kids[k].kids[3].kind = "While"
          /\ ast0.kids[k].kids[3].kids[2].kind = "Return"

----------------------------------------------------------------------------
(* IR: types, values, instructions                                         *)
(* A type is the sequence of its constructors, outermost first:            *)
(* Pointer(Number) is <<"Pointer", "Number">>.                             *)

POINTER_SIZE == 2

TyNumber == <<"Number">>
TyBoolean == <<"Boolean">>
TyChar == <<"Char">>
TyNone == <<"None">>
TyRef(t) == <<"Ref">> \o t
TyPointer(t) == <<"Pointer">> \o t
NoType == <<>>

\* ValType::get_size
get_size(t) ==
    CASE t[1] \in {"Number", "Boolean", "Char"} -> 1
      [] t[1] = "None" -> 0
      [] t[1] \in {"Pointer", "Ref"} -> POINTER_SIZE

\* Val: Num / Bool / Char carry the literal in n, Index / Ref / Pointer the offset
ValNum(n) == [v |-> "Num", n |-> n, ty |-> TyNumber]
ValBool(b) == [v |-> "Bool", n |-> IF b THEN 1 ELSE 0, ty |-> TyBoolean]
ValChar(c) == [v |-> "Char", n |-> c, ty |-> TyChar]
ValIndex(off, t) == [v |-> "Index", n |-> off, ty |-> t]
ValRef(off, t) == [v |-> "Ref", n |-> off, ty |-> t]
ValPointer(off, t) == [v |-> "Pointer", n |-> off, ty |-> t]
ValNone == [v |-> "None", n |-> 0, ty |-> TyNone]

\* Val::r#type
type(val) ==
    CASE val.v = "Ref" -> TyRef(val.ty)
      [] val.v = "Pointer" -> TyPointer(val.ty)
      [] OTHER -> val.ty

\* Val::get_size
val_size(val) == get_size(type(val))

BOOLEAN_OPERATORS == {"!=", ">", "<=", "<", ">=", "=="}
BOOLEAN_EXCLUSIVE == {"&&", "||", "!", "!&|"}

\* Type::get_result_type; NoType for None
get_result_type(l, r, op) ==
    CASE l = TyNumber /\ r = TyNumber ->
            IF op \in BOOLEAN_OPERATORS THEN TyBoolean
            ELSE IF op \in BOOLEAN_EXCLUSIVE THEN NoType
            ELSE TyNumber
      [] l[1] = "Pointer" /\ r = TyNumber ->
            IF op \in {"+", "-"} THEN l ELSE NoType
      [] l = TyBoolean /\ r = TyBoolean ->
            IF op \in BOOLEAN_OPERATORS \cup BOOLEAN_EXCLUSIVE THEN TyBoolean ELSE NoType
      [] l = TyChar /\ r = TyChar ->
            IF op \in BOOLEAN_OPERATORS THEN TyBoolean ELSE NoType
      [] OTHER -> NoType

\* Type::get_result_type_unary; NoType for None
get_result_type_unary(t, op) ==
    CASE t = TyNumber ->
            IF op = "!" THEN NoType
            ELSE IF op \in {"++", "--"} THEN TyNone
            ELSE TyNumber
      [] t = TyBoolean -> IF op = "!" THEN TyBoolean ELSE NoType
      [] t[1] = "Pointer" -> IF op \in {"++", "--"} THEN TyNone ELSE NoType
      [] OTHER -> NoType

\* Instruction: op, operands, marker or function id, has-else flag
Ins(op, args) == [op |-> op, args |-> args, m |-> 0, e |-> FALSE]
InsIf(cond, marker, haselse) == [op |-> "If", args |-> <<cond>>, m |-> marker, e |-> haselse]
InsElse(marker) == [op |-> "Else", args |-> <<>>, m |-> marker, e |-> FALSE]
InsEndIf(marker, haselse) == [op |-> "EndIf", args |-> <<>>, m |-> marker, e |-> haselse]
InsCall(f, args) == [op |-> "Call", args |-> args, m |-> f, e |-> FALSE]

\* Instruction::from_token_binary / from_token_unary
from_token_binary(op) ==
    CASE op = "+" -> "Add" [] op = "-" -> "Sub" [] op = "*" -> "Mul" [] op = "/" -> "Div"
      [] op = "%" -> "Mod" [] op = "==" -> "Eq" [] op = "!=" -> "Neq" [] op = "<" -> "Lt"
      [] op = "<=" -> "Le" [] op = "&&" -> "LAnd" [] op = "||" -> "LOr" [] op = "!&|" -> "LXor"
      [] op = "**" -> "Pow" [] op = "<<" -> "Shl" [] op = ">>" -> "Shr" [] op = "&" -> "BAnd"
      [] op = "|" -> "BOr" [] op = "^" -> "BXor"
from_token_unary(op) ==
    CASE op = "-" -> "Neg" [] op = "!" -> "LNot" [] op = "++" -> "Inc" [] op = "--" -> "Dec"
      [] op = "~" -> "BNot"

\* destination: Some((offset, size)) is <<offset, size>>, None is <<>>
SomeDest(off, size) == <<off, size>>
NoDest == <<>>

\* one element of Instructions: the instruction, its destination, the cursor snapshot
Entry(ins, dest, cur) == [ins |-> ins, dest |-> dest, cur |-> cur]

----------------------------------------------------------------------------
(* CodeGenerator                                                           *)
(* The state threaded through make_instruction:                            *)
(*   vars          the environment, a function from names to Val           *)
(*   mem           memory.last_memory_index, the cursor                    *)
(*   instructions  self.instructions                                       *)
(*   returned      every Index value an expression arm returned for a slot *)
(*                 it allocated, with the number of the instruction that   *)
(*                 fills the slot                                          *)
(*   ret           self.ret                                                *)
(*   encl          the return slots of the Expanded nodes that enclose the *)
(*                 node being lowered, innermost last (follows the AST,    *)
(*                 not self.ret)                                           *)
(*   rets          one record per lowered Return and per completed         *)
(*                 Expanded: self.ret and encl at that point, the number   *)
(*                 of the Copy a Return emitted, the value of an Expanded  *)
(*   statics       self.statics                                            *)
(*   err           Running, or the Err / Panic that ended the call         *)

NoVars == [x \in {} |-> ValNone]
GenStart ==
    [vars |-> NoVars, mem |-> 0, instructions |-> <<>>, returned |-> <<>>,
     ret |-> <<>>, encl |-> <<>>, rets |-> <<>>, statics |-> NoVars, err |-> Running]

TypeError == Err("TypeError", "")

\* Ok(val)
GenOk(val, st) == [val |-> val, st |-> st]
\* return Err(..) and the panics of unwrap / unreachable! / todo!
GenErr(st, e) == [val |-> ValNone, st |-> [st EXCEPT !.err = e]]

\* the `?` operator: go on with the value unless the call failed
Bind(r, F(_, _)) == IF r.st.err # Running THEN r ELSE F(r.val, r.st)

\* Memory::allocate: the cursor advances by n (the caller reads st.mem first)
allocate(st, n) == [st EXCEPT !.mem = @ + n]

\* Instructions::push with the cursor snapshot
push(st, ins, dest) ==
    [st EXCEPT !.instructions = Append(@, Entry(ins, dest, st.mem))]

\* Variables::insert
insert(vs, x, val) == [y \in DOMAIN vs \cup {x} |-> IF y = x THEN val ELSE vs[y]]

\* Ok(Val::Index(mem, t)) for the slot the last instruction fills
GenSlot(off, t, st) ==
    GenOk(ValIndex(off, t),
          [st EXCEPT !.returned =
              Append(@, [val |-> ValIndex(off, t), at |-> Len(st.instructions)])])

\* the literal of a Number / Char token, the characters of a String token
NumberOf(name) ==
    CASE name = "0" -> 0 [] name = "1" -> 1 [] name = "2" -> 2 [] name = "5" -> 5
CharOf(name) == CASE name = "c" -> 99 [] name = "s" -> 115

\* the casts `as i8` and `as u8`
AsI8(n) == ((n + 128) % 256) - 128
AsU8(n) == n % 256

\* a literal token that carries its payload as a number: Node::Number gives
\* Val::Num(num1 as ValNumber), Node::Char gives Val::Char(c)
Lit(kind, n) == [Node(kind, "lit", <<>>) EXCEPT !.params = <<n>>]
TokenNumber(node) ==
    IF node.name = "lit" THEN AsI8(node.params[1]) ELSE NumberOf(node.name)
TokenChar(node) == IF node.name = "lit" THEN node.params[1] ELSE CharOf(node.name)
CharsOf(name) == CASE name = "s" -> <<115>> [] name = "" -> <<>>

\* Node::BinaryOp after both operands
BinaryArm(op, left, right, st) ==
    LET t == get_result_type(type(left), type(right), op)
        size == get_size(t)
        mem == st.mem
        first == push(allocate(st, size),
                      Ins(IF op = ">=" THEN "Lt" ELSE "Le", <<left, right>>),
                      SomeDest(mem, size))
        new_mem == first.mem
    IN  IF t = NoType THEN GenErr(st, TypeError)
        ELSE IF op \in {">=", ">"}
          THEN GenSlot(new_mem, t,
                       push(allocate(first, size),
                            Ins("LNot", <<ValIndex(mem, TyBoolean)>>),
                            SomeDest(new_mem, size)))
          ELSE GenSlot(mem, t,
                       push(allocate(st, size),
                            Ins(from_token_binary(op), <<left, right>>),
                            SomeDest(mem, size)))

\* Node::UnaryOp after the operand
UnaryArm(op, expr, st) ==
    LET t == get_result_type_unary(type(expr), op)
        size == get_size(t)
        mem == st.mem
    IN  IF t = NoType THEN GenErr(st, TypeError)
        ELSE GenSlot(mem, t,
                     push(allocate(st, size), Ins(from_token_unary(op), <<expr>>),
                          SomeDest(mem, size)))

\* Node::VarAssign after the right-hand side
VarAssignArm(var, val, st) ==
    LET mem == st.mem
    IN  CASE val.v = "Index" /\ val.ty[1] = "Ref" ->
                GenOk(ValNone, [st EXCEPT !.vars = insert(@, var, val)])
          [] val.v = "Index" /\ val.ty[1] # "Ref" ->
                GenOk(ValNone,
                      [push(allocate(st, get_size(val.ty)), Ins("Copy", <<val>>),
                            SomeDest(mem, get_size(val.ty)))
                          EXCEPT !.vars = insert(@, var, ValIndex(mem, val.ty))])
          [] val.v = "Ref" ->
                GenOk(ValNone,
                      [st EXCEPT !.vars = insert(@, var, ValIndex(val.n, TyRef(val.ty)))])
          [] OTHER ->
                GenOk(ValNone,
                      [push(allocate(st, get_size(type(val))), Ins("Copy", <<val>>),
                            SomeDest(mem, val_size(val)))
                          EXCEPT !.vars = insert(@, var, ValIndex(mem, type(val)))])

\* Node::VarReassign after the right-hand side
VarReassignArm(var2, val, st) ==
    IF var2 \notin DOMAIN st.vars THEN GenErr(st, Panic)
    ELSE
    LET var == st.vars[var2]
    IN  CASE val.v = "Index" /\ val.ty[1] = "Ref" ->
                IF type(var) # val.ty THEN GenErr(st, TypeError)
                ELSE GenOk(ValNone, push(st, Ins("Copy", <<val>>),
                                         SomeDest(val.n, get_size(val.ty))))
          [] val.v = "Index" /\ val.ty[1] # "Ref" ->
                IF type(var) # val.ty THEN GenErr(st, TypeError)
                ELSE IF var.v = "Index"
                  THEN GenOk(ValNone, push(st, Ins("Copy", <<val>>),
                                           SomeDest(var.n, get_size(val.ty))))
                  ELSE GenErr(st, Panic)
          [] val.v = "Ref" ->
                IF type(var) # TyRef(val.ty) THEN GenErr(st, TypeError)
                ELSE GenOk(ValNone, push(st, Ins("Copy", <<ValIndex(val.n, val.ty)>>),
                                         SomeDest(val.n, get_size(val.ty))))
          [] OTHER ->
                IF type(var) # type(val) THEN GenErr(st, TypeError)
                ELSE IF var.v = "Index"
                  THEN GenOk(ValNone, push(st, Ins("Copy", <<val>>),
                                           SomeDest(var.n, val_size(val))))
                  ELSE GenErr(st, Panic)

\* Node::Ternary after the condition and both arms
TernaryArm(cond, then, else_, st) ==
    LET then_type == type(then)
        mem == st.mem
    IN  IF then_type # type(else_) THEN GenErr(st, TypeError)
        ELSE GenSlot(mem, then_type,
                     push(allocate(st, 1), Ins("TernaryIf", <<cond, then, else_>>),
                          SomeDest(mem, get_size(then_type))))

\* Node::Index after the index expression
IndexArm(arr, index, st) ==
    LET t == type(arr)
        size == val_size(arr)
        mem == st.mem
        added == push(allocate(st, POINTER_SIZE + size), Ins("Add", <<arr, index>>),
                      SomeDest(mem, POINTER_SIZE))
    IN  IF type(index) # TyNumber THEN GenErr(st, TypeError)
        ELSE IF ~(arr.v = "Pointer" \/ (arr.v = "Index" /\ arr.ty[1] = "Pointer"))
          THEN GenErr(st, TypeError)
        ELSE GenSlot(mem + POINTER_SIZE,
                     IF arr.v = "Pointer" THEN arr.ty ELSE Tail(arr.ty),
                     push(added, Ins("Deref", <<ValIndex(mem, t)>>),
                          SomeDest(mem + POINTER_SIZE, size)))

\* Node::Deref after the operand
DerefArm(val, st) ==
    LET t == Tail(type(val))
        mem == st.mem
    IN  IF type(val)[1] \in {"Pointer", "Ref"}
          THEN GenSlot(mem, t,
                       push(allocate(st, get_size(t)),
                            Ins(IF type(val)[1] = "Pointer" THEN "Deref" ELSE "DerefRef",
                                <<val>>),
                            SomeDest(mem, get_size(t))))
          ELSE GenErr(st, TypeError)

\* Node::DerefAssign after the value and the target: a target that is neither a
\* pointer nor a reference prints the error and goes on
DerefAssignArm(val, assign, st) ==
    IF type(val)[1] = "Pointer"
      THEN GenOk(ValNone, push(st, Ins("DerefAssign", <<val, assign>>), NoDest))
    ELSE IF type(val)[1] = "Ref"
      THEN GenOk(ValNone, push(st, Ins("DerefAssignRef", <<val, assign>>), NoDest))
    ELSE GenOk(ValNone, st)

\* Node::Converted that casts without the offset of 128
ConvertedArm_plain_cast(val, t, st) ==
    CASE val.v = "Num" /\ t = TyBoolean -> GenOk(ValBool(val.n # 0), st)
      [] val.v = "Num" /\ t = TyChar -> GenOk(ValChar(AsU8(val.n)), st)
      [] val.v = "Num" /\ t = TyNumber -> GenOk(val, st)
      [] val.v = "Bool" /\ t = TyBoolean -> GenOk(val, st)
      [] val.v = "Bool" /\ t = TyChar -> GenOk(ValChar(AsU8(val.n)), st)
      [] val.v = "Bool" /\ t = TyNumber -> GenOk(ValNum(AsI8(val.n)), st)
      [] val.v = "Char" /\ t = TyBoolean -> GenOk(ValBool(AsU8(val.n) # 0), st)
      [] val.v = "Char" /\ t = TyChar -> GenOk(val, st)
      [] val.v = "Char" /\ t = TyNumber -> GenOk(ValNum(AsI8(val.n)), st)
      [] val.v = "Ref" -> GenOk(ValPointer(val.n, val.ty), st)
      [] val.v = "Index" -> GenOk(ValIndex(val.n, t), st)
      [] OTHER -> GenErr(st, Panic)

\* Node::Converted from the evaluated value on
ConvertedArm(val, t, st) ==
    CASE val.v = "Num" /\ t = TyBoolean -> GenOk(ValBool(val.n # 0), st)
      [] val.v = "Num" /\ t = TyChar -> GenOk(ValChar(AsU8(val.n + 128)), st)
      [] val.v = "Num" /\ t = TyNumber -> GenOk(val, st)
      [] val.v = "Bool" /\ t = TyBoolean -> GenOk(val, st)
      [] val.v = "Bool" /\ t = TyChar -> GenOk(ValChar(AsU8(val.n)), st)
      [] val.v = "Bool" /\ t = TyNumber -> GenOk(ValNum(AsI8(val.n)), st)
      [] val.v = "Char" /\ t = TyBoolean -> GenOk(ValBool(AsU8(val.n) # 0), st)
      [] val.v = "Char" /\ t = TyChar -> GenOk(val, st)
      [] val.v = "Char" /\ t = TyNumber -> GenOk(ValNum(AsI8(val.n - 128)), st)
      [] val.v = "Ref" -> GenOk(ValPointer(val.n, val.ty), st)
      [] val.v = "Index" -> GenOk(ValIndex(val.n, t), st)
      [] OTHER -> GenErr(st, Panic)

RECURSIVE make_instruction(_, _)

\* `for statement in statements { self.make_instruction(statement, ..)?; }`
RECURSIVE MakeEach(_, _, _)
MakeEach(nodes, k, st) ==
    IF k > Len(nodes) THEN GenOk(ValNone, st)
    ELSE Bind(make_instruction(nodes[k], st), LAMBDA v, s : MakeEach(nodes, k + 1, s))

\* the loops of Node::Print and Node::Ascii
RECURSIVE PrintEach(_, _, _, _)
PrintEach(nodes, k, st, ascii) ==
    IF k > Len(nodes) THEN GenOk(ValNone, st)
    ELSE Bind(make_instruction(nodes[k], st),
              LAMBDA v, s :
                  PrintEach(nodes, k + 1,
                            push(s, Ins(IF ascii \/ type(v) = TyChar THEN "Ascii" ELSE "Print",
                                        <<v>>), NoDest),
                            ascii))

\* the loop of Node::Array
RECURSIVE ArrayEach(_, _, _, _, _)
ArrayEach(nodes, k, st, current, size) ==
    IF k > Len(nodes) THEN GenOk(ValNone, st)
    ELSE Bind(make_instruction(nodes[k], st),
              LAMBDA v, s :
                  ArrayEach(nodes, k + 1,
                            push(s, Ins("Copy", <<v>>), SomeDest(current, size)),
                            current + size, size))

\* the loop of Node::String and the terminating zero
RECURSIVE StringEach(_, _, _, _)
StringEach(chars, k, st, current) ==
    IF k > Len(chars)
      THEN push(st, Ins("Copy", <<ValChar(0)>>), SomeDest(current, POINTER_SIZE))
      ELSE StringEach(chars, k + 1,
                      push(st, Ins("Copy", <<ValChar(chars[k])>>),
                           SomeDest(current, POINTER_SIZE)),
                      current + 1)

\* Node::Return from the evaluated value on
ReturnArm(val, st) ==
    IF st.ret = <<>> THEN GenErr(st, Panic)
    ELSE LET top == st.ret[Len(st.ret)]
             pushed == push(st, Ins("Copy", <<val>>), SomeDest(top[1], top[2]))
         IN  GenOk(ValNone,
                   [pushed EXCEPT !.rets =
                       Append(@, [kind |-> "Return", at |-> Len(pushed.instructions),
                                  ret |-> st.ret, encl |-> st.encl, val |-> ValNone])])

\* Node::Expanded that leaves its return slot on self.ret
ExpandedArm_without_pop(node, st) ==
    LET mem == st.mem
        size == get_size(node.ty)
        entered == [allocate(st, size) EXCEPT !.ret = Append(@, <<mem, size>>),
                                              !.encl = Append(@, <<mem, size>>)]
    IN  Bind(MakeEach(node.kids, 1, entered),
             LAMBDA v, s :
                 GenOk(ValIndex(mem, node.ty),
                       [s EXCEPT !.vars = st.vars, !.mem = entered.mem,
                                 !.encl = st.encl,
                                 !.rets = Append(@, [kind |-> "Expanded", at |-> 0,
                                                     ret |-> s.ret, encl |-> st.encl,
                                                     val |-> ValIndex(mem, node.ty)])]))

\* Node::Expanded: the return slot is allocated in the caller's memory and
\* pushed on self.ret; the statements work on clones of vars and memory;
\* self.ret.pop() removes what the arm pushed
ExpandedArm(node, st) ==
    LET mem == st.mem
        size == get_size(node.ty)
        entered == [allocate(st, size) EXCEPT !.ret = Append(@, <<mem, size>>),
                                              !.encl = Append(@, <<mem, size>>)]
    IN  Bind(MakeEach(node.kids, 1, entered),
             LAMBDA v, s :
                 LET popped == SubSeq(s.ret, 1, Len(s.ret) - 1)
                 IN  GenOk(ValIndex(mem, node.ty),
                           [s EXCEPT !.vars = st.vars, !.mem = entered.mem,
                                     !.ret = popped, !.encl = st.encl,
                                     !.rets = Append(@, [kind |-> "Expanded", at |-> 0,
                                                         ret |-> popped, encl |-> st.encl,
                                                         val |-> ValIndex(mem, node.ty)])]))

\* Node::If that forgets the Else marker
IfArm_without_else(node, cond, st) ==
    LET mem == st.mem
        opened == push(allocate(st, 2), InsIf(cond, mem, Len(node.kids) = 3), NoDest)
        Close(s) == GenOk(ValNone, push(s, InsEndIf(mem, Len(node.kids) = 3), NoDest))
    IN  IF type(cond) # TyBoolean THEN GenErr(st, TypeError)
        ELSE Bind(make_instruction(node.kids[2], opened),
                  LAMBDA then, s1 :
                      IF type(then) # TyNone THEN GenErr(s1, TypeError)
                      ELSE IF Len(node.kids) = 3
                        THEN Bind(make_instruction(node.kids[3], s1),
                                  LAMBDA e, s2 :
                                      IF type(e) # TyNone THEN GenErr(s2, TypeError)
                                      ELSE Close(s2))
                        ELSE Close(s1))

\* Node::If from the marker allocation on
IfArm(node, cond, st) ==
    LET mem == st.mem
        opened == push(allocate(st, 2), InsIf(cond, mem, Len(node.kids) = 3), NoDest)
        Close(s) == GenOk(ValNone, push(s, InsEndIf(mem, Len(node.kids) = 3), NoDest))
    IN  IF type(cond) # TyBoolean THEN GenErr(st, TypeError)
        ELSE Bind(make_instruction(node.kids[2], opened),
                  LAMBDA then, s1 :
                      IF type(then) # TyNone THEN GenErr(s1, TypeError)
                      ELSE IF Len(node.kids) = 3
                        THEN Bind(make_instruction(node.kids[3],
                                                   push(s1, InsElse(mem), NoDest)),
                                  LAMBDA e, s2 :
                                      IF type(e) # TyNone THEN GenErr(s2, TypeError)
                                      ELSE Close(s2))
                        ELSE Close(s1))

\* the tail of Node::While and Node::For: the condition again, then EndWhile
LoopEnd(cond1, cond, st) ==
    Bind(IF cond.v = "Index" THEN make_instruction(cond1, st) ELSE GenOk(cond, st),
         LAMBDA cond2, s :
             GenOk(ValNone,
                   push(IF cond.v = "Index" /\ cond2 # cond
                          THEN push(s, Ins("Copy", <<cond2>>),
                                    SomeDest(cond.n, get_size(cond.ty)))
                          ELSE s,
                        Ins("EndWhile", <<cond>>), NoDest)))

\* Node::While and Node::For from the evaluated condition on; steps is empty for While
LoopArm(cond1, cond0, body1, steps, st) ==
    LET mem == st.mem
        literal == cond0.v = "Bool"
        cond == IF literal THEN ValIndex(mem, TyBoolean) ELSE cond0
        held == IF literal
                  THEN push(allocate(st, val_size(cond0)), Ins("Copy", <<cond0>>),
                            SomeDest(mem, val_size(cond0)))
                  ELSE st
    IN  IF type(cond0) # TyBoolean THEN GenErr(st, TypeError)
        ELSE Bind(make_instruction(body1, push(held, Ins("While", <<cond>>), NoDest)),
                  LAMBDA body, s1 :
                      IF type(body) # TyNone THEN GenErr(s1, TypeError)
                      ELSE IF steps = <<>> THEN LoopEnd(cond1, cond, s1)
                      ELSE Bind(make_instruction(steps[1], s1),
                                LAMBDA step, s2 :
                                    IF type(step) # TyNone THEN GenErr(s2, TypeError)
                                    ELSE LoopEnd(cond1, cond, s2)))

make_instruction(node, st) ==
    CASE node.kind = "Number" -> GenOk(ValNum(TokenNumber(node)), st)
      [] node.kind = "Boolean" ->
            IF node.name \in {"true", "false"} THEN GenOk(ValBool(node.name = "true"), st)
            ELSE GenErr(st, Panic)
      [] node.kind = "Char" -> GenOk(ValChar(TokenChar(node)), st)
      [] node.kind = "BinaryOp" ->
            Bind(make_instruction(node.kids[1], st),
                 LAMBDA left, s1 :
                     Bind(make_instruction(node.kids[2], s1),
                          LAMBDA right, s2 : BinaryArm(node.name, left, right, s2)))
      [] node.kind = "UnaryOp" ->
            Bind(make_instruction(node.kids[1], st),
                 LAMBDA expr, s : UnaryArm(node.name, expr, s))
      [] node.kind = "VarAssign" ->
            Bind(make_instruction(node.kids[1], st),
                 LAMBDA val, s : VarAssignArm(node.name, val, s))
      [] node.kind = "VarAccess" ->
            IF node.name \in DOMAIN st.vars THEN GenOk(st.vars[node.name], st)
            ELSE GenErr(st, Panic)
      [] node.kind = "VarReassign" ->
            Bind(make_instruction(node.kids[1], st),
                 LAMBDA val, s : VarReassignArm(node.name, val, s))
      [] node.kind = "Statements" ->
            \* the block works on clones of memory and vars; both are left as they were
            Bind(MakeEach(node.kids, 1, st),
                 LAMBDA v, s : GenOk(ValNone, [s EXCEPT !.vars = st.vars, !.mem = st.mem]))
      [] node.kind = "Print" -> PrintEach(node.kids, 1, st, FALSE)
      [] node.kind = "Ascii" -> PrintEach(node.kids, 1, st, TRUE)
      [] node.kind = "Input" ->
            GenSlot(st.mem, TyNumber,
                    push(allocate(st, get_size(TyNumber)), Ins("Input", <<>>),
                         SomeDest(st.mem, get_size(TyNumber))))
      [] node.kind = "If" ->
            Bind(make_instruction(node.kids[1], st), LAMBDA cond, s : IfArm(node, cond, s))
      [] node.kind = "Ternary" ->
            Bind(make_instruction(node.kids[1], st),
                 LAMBDA cond, s1 :
                     IF type(cond) # TyBoolean THEN GenErr(s1, TypeError)
                     ELSE Bind(make_instruction(node.kids[2], s1),
                               LAMBDA then, s2 :
                                   Bind(make_instruction(node.kids[3], s2),
                                        LAMBDA else_, s3 : TernaryArm(cond, then, else_, s3))))
      [] node.kind = "None" -> GenOk(ValNone, st)
      [] node.kind = "Index" ->
            IF node.name \notin DOMAIN st.vars THEN GenErr(st, Panic)
            ELSE Bind(make_instruction(node.kids[1], st),
                      LAMBDA index, s : IndexArm(st.vars[node.name], index, s))
      [] node.kind = "IndexAssign" ->
            IF node.name \notin DOMAIN st.vars THEN GenErr(st, Panic)
            ELSE Bind(make_instruction(node.kids[1], st),
                      LAMBDA index, s1 :
                          IF type(index) # TyNumber THEN GenErr(s1, TypeError)
                          ELSE Bind(make_instruction(node.kids[2],
                                        push(allocate(s1, POINTER_SIZE),
                                             Ins("Add", <<st.vars[node.name], index>>),
                                             SomeDest(s1.mem, POINTER_SIZE))),
                                    LAMBDA assign, s2 :
                                        GenOk(ValNone,
                                              push(s2,
                                                   Ins("DerefAssign",
                                                       <<ValIndex(s1.mem,
                                                                  type(st.vars[node.name])),
                                                         assign>>),
                                                   NoDest))))
      [] node.kind = "Array" ->
            Bind(ArrayEach(node.kids, 1, allocate(st, get_size(node.ty) * Len(node.kids)),
                           st.mem, get_size(node.ty)),
                 LAMBDA v, s : GenOk(ValPointer(st.mem, node.ty), s))
      [] node.kind = "Return" ->
            Bind(make_instruction(node.kids[1], st), LAMBDA val, s : ReturnArm(val, s))
      [] node.kind = "Ref" ->
            Bind(make_instruction(node.kids[1], st),
                 LAMBDA val, s :
                     IF val.v \in {"Index", "Pointer", "Ref"} THEN GenOk(ValRef(val.n, val.ty), s)
                     ELSE GenErr(s, TypeError))
      [] node.kind = "Deref" ->
            Bind(make_instruction(node.kids[1], st), LAMBDA val, s : DerefArm(val, s))
      [] node.kind = "DerefAssign" ->
            Bind(make_instruction(node.kids[2], st),
                 LAMBDA assign, s1 :
                     IF node.kids[1].kind # "Deref" THEN GenErr(s1, Panic)
                     ELSE Bind(make_instruction(node.kids[1].kids[1], s1),
                               LAMBDA val, s2 : DerefAssignArm(val, assign, s2)))
      [] node.kind = "While" ->
            Bind(make_instruction(node.kids[1], st),
                 LAMBDA cond, s : LoopArm(node.kids[1], cond, node.kids[2], <<>>, s))
      [] node.kind = "For" ->
            Bind(make_instruction(node.kids[1], st),
                 LAMBDA init, s1 :
                     IF type(init) # TyNone THEN GenErr(s1, TypeError)
                     ELSE Bind(make_instruction(node.kids[2], s1),
                               LAMBDA cond, s2 :
                                   LoopArm(node.kids[2], cond, node.kids[4],
                                           <<node.kids[3]>>, s2)))
      [] node.kind = "Expanded" -> ExpandedArm(node, st)
      [] node.kind = "String" ->
            GenOk(ValPointer(st.mem, TyChar),
                  StringEach(CharsOf(node.name), 1,
                             allocate(st, Len(CharsOf(node.name)) + 1), st.mem))
      [] node.kind = "Converted" ->
            Bind(make_instruction(node.kids[1], st),
                 LAMBDA val, s : ConvertedArm(val, node.ty, s))
      [] node.kind = "StaticVar" ->
            IF node.name \in DOMAIN st.statics
              THEN GenOk(ValNone, [st EXCEPT !.vars = insert(@, node.name, st.statics[node.name])])
              ELSE GenErr(st, Panic)
      [] node.kind = "Pointer" ->
            Bind(make_instruction(node.kids[1], st),
                 LAMBDA val, s :
                     IF val.v \in {"Index", "Pointer", "Ref"}
                       THEN GenOk(ValPointer(val.n, val.ty), s)
                       ELSE GenErr(s, TypeError))
      \* AttrAccess, Struct, StructConstructor: todo!(); anything else: unreachable!()
      [] OTHER -> GenErr(st, Panic)

\* CodeGenerator::make_static
make_static(node, st) ==
    Bind(make_instruction(node.kids[1], st),
         LAMBDA val, s :
             LET mem == s.mem
             IN  CASE (val.v = "Index" /\ val.ty[1] = "Ref") \/ val.v = "Ref" ->
                        GenOk(ValNone, s)
                   [] val.v = "Index" /\ val.ty[1] # "Ref" ->
                        GenOk(ValNone,
                              [push(allocate(s, get_size(val.ty)), Ins("Copy", <<val>>),
                                    SomeDest(mem, get_size(val.ty)))
                                  EXCEPT !.statics = insert(@, node.name, ValIndex(mem, val.ty))])
                   [] OTHER ->
                        GenOk(ValNone,
                              [push(allocate(s, get_size(type(val))), Ins("Copy", <<val>>),
                                    SomeDest(mem, val_size(val)))
                                  EXCEPT !.statics = insert(@, node.name,
                                                           ValIndex(mem, type(val)))]))

RECURSIVE StaticEach(_, _, _)
StaticEach(statics, k, st) ==
    IF k > Len(statics) THEN GenOk(ValNone, st)
    ELSE IF statics[k].kind # "StaticVar" THEN GenErr(st, Panic)
    ELSE Bind(make_static(statics[k], st), LAMBDA v, s : StaticEach(statics, k + 1, s))

\* generate_code(ast, statics, structs) with no struct definitions
generate_code(root, statics) ==
    Bind(StaticEach(statics, 1, GenStart), LAMBDA v, s : make_instruction(root, s))

----------------------------------------------------------------------------
(* generate_code as one step                                               *)

GenerateCode ==
    /\ stage = "gen"
    /\ gen.result = Running
    /\ LET r == generate_code(gast.ast, gast.statics)
       IN  gen' = [instructions |-> r.st.instructions,
                   returned |-> r.st.returned,
                   ret |-> r.st.ret,
                   rets |-> r.st.rets,
                   result |-> IF r.st.err = Running THEN Ok ELSE r.st.err]
    /\ UNCHANGED <<stage, gast, prevars, astvars, optvars>>

----------------------------------------------------------------------------
(* ASTs handed to generate_code: declarations of a number, a boolean, an   *)
(* array, a pointer and a reference, then statements over them             *)

UnaryOp(op, e) == Node("UnaryOp", op, <<e>>)
Ternary(c, t, e) == Node("Ternary", "", <<c, t, e>>)
Index(a, e) == Node("Index", a, <<e>>)
IndexAssign(a, e, v) == Node("IndexAssign", a, <<e, v>>)
Deref(e) == Node("Deref", "", <<e>>)
Ref(e) == Node("Ref", "", <<e>>)
Pointer(e) == Node("Pointer", "", <<e>>)
DerefAssign(d, v) == Node("DerefAssign", "", <<d, v>>)
Input == Node("Input", "", <<>>)
Char == Node("Char", "c", <<>>)
String == Node("String", "s", <<>>)
ArrayOf(nodes, t) == [Node("Array", "", nodes) EXCEPT !.ty = t]
Converted(e, t) == [Node("Converted", "", <<e>>) EXCEPT !.ty = t]
StaticVar(x, e) == Node("StaticVar", x, <<e>>)

GenDecls ==
    <<VarAssign("x", Number, "int"),
      VarAssign("b", Boolean, "bool"),
      VarAssign("a", ArrayOf(<<Number, Number>>, TyNumber), "int[]"),
      VarAssign("p", Pointer(VarAccess("x")), "int*"),
      VarAssign("r", Ref(VarAccess("x")), "&int")>>

GenConds == {Boolean, VarAccess("b"), BinaryOp(">=", VarAccess("x"), Number),
             UnaryOp("!", VarAccess("b")), VarAccess("x")}

GenExprs ==
    GenConds \cup
    {Number, Char, String, Input, VarAccess("a"), VarAccess("r"),
     BinaryOp("+", VarAccess("x"), Number),
     BinaryOp("+", VarAccess("p"), Number),
     BinaryOp("*", VarAccess("b"), Number),
     BinaryOp(">", Number, VarAccess("x")),
     UnaryOp("-", VarAccess("x")),
     UnaryOp("++", VarAccess("x")),
     Ternary(VarAccess("b"), VarAccess("x"), Number),
     Ternary(VarAccess("b"), VarAccess("a"), VarAccess("p")),
     Ternary(VarAccess("b"), VarAccess("x"), Boolean),
     Index("a", Number),
     Index("a", VarAccess("b")),
     Index("x", Number),
     Deref(VarAccess("p")),
     Deref(VarAccess("r")),
     Deref(VarAccess("x")),
     Converted(VarAccess("x"), TyBoolean),
     Converted(Number, TyChar),
     Expanded(<<VarAssign("q", Number, "int"),
                Statements(<<Return(BinaryOp("*", VarAccess("q"), Number))>>)>>, TyNumber),
     Expanded(<<VarAssign("q", Expanded(<<Return(Number)>>, TyNumber), "int"),
                Return(VarAccess("q"))>>, TyNumber)}

GenBlocks ==
    {Statements(<<>>),
     Statements(<<VarAssign("z", Number, "int")>>),
     Statements(<<If2(VarAccess("b"), Statements(<<>>))>>)}

GenSimple ==
    {VarAssign("y", e, "") : e \in GenExprs}
      \cup {VarReassign("x", e) : e \in {Number, Boolean, BinaryOp("+", VarAccess("x"), Number)}}
      \cup {VarReassign("r", Ref(VarAccess("x"))), VarReassign("r", VarAccess("r")),
            PrintNode(<<Number, Char>>), Node("Ascii", "", <<Number>>),
            IndexAssign("a", Number, Number), IndexAssign("a", Boolean, Number),
            DerefAssign(Deref(VarAccess("p")), Number),
            DerefAssign(Deref(VarAccess("r")), Number),
            DerefAssign(Deref(VarAccess("x")), Number),
            DerefAssign(Deref(VarAccess("b")), VarAccess("x")),
            StaticVar("s", Number),
            Node("Struct", "S", <<>>)}

GenStmts ==
    GenSimple \cup GenBlocks
      \cup {If2(c, blk) : c \in GenConds, blk \in GenBlocks}
      \cup {If3(VarAccess("b"), blk, Statements(<<VarAssign("z", Number, "int")>>)) :
               blk \in GenBlocks}
      \cup {While(c, Statements(<<VarReassign("x", Number)>>)) : c \in GenConds}
      \cup {For(VarAssign("k", Number, "int"), c, VarReassign("k", Number), Statements(<<>>)) :
               c \in GenConds}

\* a later statement, to see the cursor after what came before
GenTails == {VarAssign("w", Number, "int"),
             If2(VarAccess("b"), Statements(<<>>)),
             Statements(<<If2(VarAccess("b"), Statements(<<>>))>>),
             VarReassign("x", VarAccess("y")),
             VarReassign("r", Ref(VarAccess("y")))}

GenPrograms ==
    {[ast |-> Statements(GenDecls \o <<s, t>>), statics |-> sts] :
        s \in GenStmts, t \in GenTails,
        sts \in {<<>>, <<StaticVar("s", Number)>>, <<StaticVar("s", Ref(Input))>>}}

InitGen ==
    /\ stage = "gen"
    /\ gast \in GenPrograms
    /\ gen = NoGen
    /\ input = <<>>
    /\ tokens = <<>>
    /\ i = 0
    /\ ifs = <<>>
    /\ declared = {}
    /\ result = Running
    /\ ast0 = EmptyAst
    /\ ast = EmptyAst
    /\ pc = "idle"
    /\ presult = Running
    /\ code = <<>>
    /\ oi = 0
    /\ optimized = <<>>
    /\ known = <<>>
    /\ recorded = <<>>
    /\ oresult = Running

NextGen == GenerateCode

SpecGen == InitGen /\ [][NextGen]_vars

----------------------------------------------------------------------------
(* Claims about generate_code                                              *)

GenDone == stage = "gen" /\ gen.result # Running
GenAccepted == stage = "gen" /\ gen.result = Ok

\* the statement of the program that follows the declarations
GenStmt == gast.ast.kids[Len(GenDecls) + 1]

\* C11 (first half): the cursor snapshots of the emitted instructions never
\* decrease along the instruction list.
C11_CursorNonDecreasing ==
    GenAccepted =>
        \A j, k \in 1..Len(gen.instructions) :
            j < k => gen.instructions[j].cur <= gen.instructions[k].cur

\* C11 (second half): every destination offset lies strictly below the cursor
\* snapshot recorded on its instruction, results of size 0 included.
C11_DestBelowCursor ==
    GenAccepted =>
        \A k \in 1..Len(gen.instructions) :
            gen.instructions[k].dest # NoDest =>
                gen.instructions[k].dest[1] < gen.instructions[k].cur

\* C11: memory monotonicity: across a codegen run the cursor snapshots are
\* non-decreasing in emission order and every destination offset is below
\* the snapshot of its instruction.
C11_MemoryMonotonicity ==
    GenAccepted =>
        /\ \A j, k \in 1..Len(gen.instructions) :
              j < k => gen.instructions[j].cur <= gen.instructions[k].cur
        /\ \A k \in 1..Len(gen.instructions) :
              gen.instructions[k].dest # NoDest =>
                  gen.instructions[k].dest[1] < gen.instructions[k].cur

\* C12: every Index(off, T) an expression returns is backed by T.size() bytes:
\* the instruction filling it records the size T.size(), and off + T.size()
\* does not exceed the cursor snapshot of that instruction.
C12_IndexValuesBacked ==
    GenAccepted =>
        \A k \in 1..Len(gen.returned) :
            LET val == gen.returned[k].val
                entry == gen.instructions[gen.returned[k].at]
            IN  /\ entry.dest # NoDest
                /\ entry.dest[1] = val.n
                /\ entry.dest[2] = get_size(val.ty)
                /\ val.n + get_size(val.ty) <= entry.cur

\* C16: lowering `*e = v` with e of neither pointer nor reference type makes
\* generate_code return Err(TypeError), not Ok.
C16_DerefAssignTypeError ==
    (GenDone /\ GenStmt.kind = "DerefAssign"
            /\ GenStmt.kids[1] \in {Deref(VarAccess("x")), Deref(VarAccess("b"))}) =>
        gen.result = TypeError

\* C17: no two distinct If instructions of a generated list carry the same
\* marker offset.
C17_MarkersUnique ==
    GenAccepted =>
        \A j, k \in 1..Len(gen.instructions) :
            (j # k /\ gen.instructions[j].ins.op = "If" /\ gen.instructions[k].ins.op = "If")
                => gen.instructions[j].ins.m # gen.instructions[k].ins.m

----------------------------------------------------------------------------
(* optimize: one step per iteration of `for (assign, instruction) in code` *)

\* ValNumber is i8
Wrap8(n) == ((n + 128) % 256) - 128

RECURSIVE Power(_, _)
Power(a, b) == IF b <= 0 THEN 1 ELSE Wrap8(a * Power(a, b - 1))

\* what an arithmetic instruction over literals computes
Foldable == {"Copy", "Add", "Sub", "Mul", "Neg", "Pow", "Inc", "Dec"}
Eval(ins) ==
    CASE ins.op = "Copy" -> ins.args[1]
      [] ins.op = "Add" -> ValNum(Wrap8(ins.args[1].n + ins.args[2].n))
      [] ins.op = "Sub" -> ValNum(Wrap8(ins.args[1].n - ins.args[2].n))
      [] ins.op = "Mul" -> ValNum(Wrap8(ins.args[1].n * ins.args[2].n))
      [] ins.op = "Pow" -> ValNum(Power(ins.args[1].n, ins.args[2].n))
      [] ins.op = "Neg" -> ValNum(Wrap8(0 - ins.args[1].n))
      [] ins.op = "Inc" -> ValNum(Wrap8(ins.args[1].n + 1))
      [] ins.op = "Dec" -> ValNum(Wrap8(ins.args[1].n - 1))

Literal(val) == val.v \in {"Num", "Bool", "Char"}

\* the instruction of this iteration and its `assign`
Current == code[oi]
InLoop == stage = "opt" /\ oresult = Running /\ oi <= Len(code)

\* vars.get(index).is_some()
KnownAt(a) == a.n \in DOMAIN known

\* the propagation rule: an Index operand whose slot has a known value that is
\* not itself an Index is replaced by it
Substitute(a) ==
    IF a.v = "Index" /\ KnownAt(a) /\ known[a.n].v # "Index" THEN known[a.n] ELSE a

\* `continue` after pushing the entries
Continue(entries) ==
    /\ optimized' = optimized \o entries
    /\ oi' = oi + 1
    /\ UNCHANGED <<known, recorded, oresult>>

\* a panic: unwrap on None, unreachable!(), todo!()
Abort ==
    /\ oresult' = Panic
    /\ UNCHANGED <<optimized, oi, known, recorded>>

\* falling out of the match with a value: vars.insert(assign.0.unwrap().0, optimize)
Record(entries, val) ==
    IF Current.dest = NoDest THEN Abort
    ELSE /\ optimized' = optimized \o entries
         /\ known' = insert(known, Current.dest[1], val)
         /\ recorded' = insert(recorded, Current.dest[1], oi)
         /\ oi' = oi + 1
         /\ UNCHANGED oresult

OptFrame == UNCHANGED <<stage, code, prevars, astvars, genvars>>

IsIdentity(ins) ==
    \/ ins.op \in {"Add", "Sub"} /\ ins.args[2] = ValNum(0)
    \/ ins.op \in {"Mul", "Div"} /\ ins.args[2] = ValNum(1)
IsAnnihilation(ins) == ins.op = "Mul" /\ ins.args[2] = ValNum(0)
IsSquaring(ins) ==
    ins.op = "Mul" /\ ~IsIdentity(ins) /\ ~IsAnnihilation(ins) /\ ins.args[1] = ins.args[2]
IsNegation(ins) ==
    /\ ins.op = "Mul" /\ ~IsIdentity(ins) /\ ~IsAnnihilation(ins) /\ ~IsSquaring(ins)
    /\ ins.args[2] = ValNum(0 - 1)
IsRewrite(ins) == IsIdentity(ins) \/ IsAnnihilation(ins) \/ IsSquaring(ins) \/ IsNegation(ins)

BinaryOps == {"Add", "Sub", "Mul", "Div", "Mod", "Eq", "LAnd", "LOr", "Lt", "Le", "Neq",
              "Pow", "Shl", "Shr", "BAnd", "BOr", "BXor", "LXor"}
UnaryOps == {"LNot", "Neg", "Inc", "Dec", "Print", "Ascii", "BNot", "Copy"}

\* x + 0, x - 0, x * 1, x / 1: the operand becomes the known value of the slot;
\* nothing is pushed unless the operand is an Index without a known value
OptIdentity ==
    /\ InLoop /\ IsIdentity(Current.ins)
    /\ LET a == Current.ins.args[1]
       IN  IF a.v = "Index"
             THEN IF KnownAt(a) THEN Record(<<>>, known[a.n]) ELSE Continue(<<Current>>)
             ELSE Record(<<>>, a)
    /\ OptFrame

\* x * 0: Num(0) becomes the known value of the slot; nothing is pushed
OptAnnihilation ==
    /\ InLoop /\ IsAnnihilation(Current.ins)
    /\ Record(<<>>, ValNum(0))
    /\ OptFrame

\* x * x rewritten without consulting the known values
OptSquaring_no_lookup ==
    /\ InLoop /\ IsSquaring(Current.ins)
    /\ Continue(<<[Current EXCEPT !.ins = Ins("Pow", <<Current.ins.args[1], ValNum(2)>>)]>>)
    /\ OptFrame

\* x * x
OptSquaring ==
    /\ InLoop /\ IsSquaring(Current.ins)
    /\ LET left == Current.ins.args[1]
       IN  IF left.v = "Index" /\ ~KnownAt(left) THEN Continue(<<Current>>)
           ELSE Continue(<<[Current EXCEPT !.ins =
                               Ins("Pow", <<IF left.v = "Index" THEN known[left.n] ELSE left,
                                            ValNum(2)>>)]>>)
    /\ OptFrame

\* x * -1
OptNegation ==
    /\ InLoop /\ IsNegation(Current.ins)
    /\ LET left == Current.ins.args[1]
       IN  IF left.v = "Index" /\ ~KnownAt(left) THEN Continue(<<Current>>)
           ELSE Continue(<<[Current EXCEPT !.ins =
                               Ins("Neg", <<IF left.v = "Index" THEN known[left.n] ELSE left>>)]>>)
    /\ OptFrame

OptInput ==
    /\ InLoop /\ Current.ins.op = "Input"
    /\ Continue(<<Current>>)
    /\ OptFrame

\* the check! macro (2 and BINARY2 forms): the operands are substituted and the
\* instruction is pushed; when every operand is then a literal and the
\* instruction has a destination, the folded value becomes the known value of
\* the slot
OptCheck ==
    /\ InLoop /\ ~IsRewrite(Current.ins)
    /\ Current.ins.op \in BinaryOps \cup UnaryOps
    /\ LET args == [k \in 1..Len(Current.ins.args) |-> Substitute(Current.ins.args[k])]
           new == [Current EXCEPT !.ins.args = args]
       IN  IF /\ \A k \in 1..Len(args) : Literal(args[k])
              /\ Current.ins.op \in Foldable
              /\ Current.dest # NoDest
             THEN Record(<<new>>, Eval(new.ins))
             ELSE Continue(<<new>>)
    /\ OptFrame

\* Some(val) of the three `if let Val::Index(..)` blocks of the TernaryIf arm
TernarySome(a) == a.v # "Index" \/ (KnownAt(a) /\ known[a.n].v # "Index")

OptTernaryIf ==
    /\ InLoop /\ Current.ins.op = "TernaryIf"
    /\ LET cond1 == Current.ins.args[1]
           then1 == Current.ins.args[2]
           else1 == Current.ins.args[3]
           c == TernarySome(cond1)
           t == TernarySome(then1)
           e == TernarySome(else1)
           new_ins ==
               CASE c /\ t /\ ~e -> <<Substitute(cond1), Substitute(then1), else1>>
                 [] ~c /\ ~t /\ e -> <<cond1, then1, Substitute(else1)>>
                 [] ~c /\ t /\ ~e -> <<cond1, Substitute(then1), else1>>
                 [] ~c /\ t /\ e -> <<cond1, Substitute(then1), Substitute(else1)>>
                 [] c /\ ~t /\ ~e -> <<Substitute(cond1), then1, else1>>
                 [] c /\ ~t /\ e -> <<Substitute(cond1), then1, Substitute(else1)>>
                 [] OTHER -> <<cond1, then1, else1>>
       IN  Continue(<<[Current EXCEPT !.ins.args = new_ins]>>)
    /\ OptFrame

\* the arguments the Call arm pushes: the known values of the Index arguments
RECURSIVE CallArgs(_, _)
CallArgs(args, k) ==
    IF k > Len(args) THEN <<>>
    ELSE (IF args[k].v = "Index" THEN <<known[args[k].n]>> ELSE <<>>) \o CallArgs(args, k + 1)

OptCall ==
    /\ InLoop /\ Current.ins.op = "Call"
    /\ IF \E k \in 1..Len(Current.ins.args) :
              Current.ins.args[k].v = "Index" /\ ~TernarySome(Current.ins.args[k])
         THEN Abort
         ELSE Continue(<<[Current EXCEPT !.ins.args = CallArgs(Current.ins.args, 1)]>>)
    /\ OptFrame

\* `_ => todo!()`: If, Else, EndIf, While, EndWhile, Deref, DerefRef, DerefAssign, ...
OptTodo ==
    /\ InLoop /\ ~IsRewrite(Current.ins)
    /\ Current.ins.op \notin BinaryOps \cup UnaryOps \cup {"Input", "TernaryIf", "Call"}
    /\ Abort
    /\ OptFrame

\* the loop is over: `optimized` is returned
OptReturn ==
    /\ stage = "opt" /\ oresult = Running /\ oi > Len(code)
    /\ oresult' = Ok
    /\ UNCHANGED <<optimized, oi, known, recorded>>
    /\ OptFrame

----------------------------------------------------------------------------
(* Instruction lists handed to optimize: the k-th instruction writes slot  *)
(* k - 1 (size 1) and carries the cursor snapshot k; Print and the control *)
(* instructions have no destination, as generate_code emits them           *)

Slot0 == ValIndex(0, TyNumber)

OptWithDest ==
    {Ins("Copy", <<ValNum(5)>>), Ins("Input", <<>>),
     Ins("Add", <<ValNum(5), ValNum(0)>>), Ins("Add", <<Slot0, ValNum(0)>>),
     Ins("Add", <<ValNum(5), ValNum(1)>>), Ins("Sub", <<Slot0, ValNum(1)>>),
     Ins("Mul", <<ValNum(5), ValNum(1)>>),
     Ins("Mul", <<ValNum(5), ValNum(0)>>), Ins("Mul", <<Slot0, ValNum(0)>>),
     Ins("Mul", <<ValNum(5), ValNum(5)>>), Ins("Mul", <<Slot0, Slot0>>),
     Ins("Mul", <<ValNum(5), ValNum(0 - 1)>>), Ins("Mul", <<Slot0, ValNum(0 - 1)>>),
     Ins("Neg", <<Slot0>>),
     Ins("TernaryIf", <<ValBool(TRUE), Slot0, ValNum(1)>>),
     InsCall(7, <<>>), InsCall(7, <<ValNum(1)>>), InsCall(7, <<Slot0>>),
     InsCall(7, <<Slot0, ValNum(1), Slot0>>),
     Ins("Deref", <<ValIndex(0, TyPointer(TyNumber))>>)}

OptNoDest ==
    {Ins("Print", <<Slot0>>),
     InsIf(ValBool(TRUE), 0, TRUE), InsElse(0), InsEndIf(0, TRUE),
     Ins("While", <<Slot0>>), Ins("EndWhile", <<Slot0>>)}

MkCode(inss) ==
    [k \in 1..Len(inss) |->
        Entry(inss[k], IF inss[k] \in OptWithDest THEN SomeDest(k - 1, 1) ELSE NoDest, k)]

\* Instruction lists of sibling blocks: Statements restores the memory cursor
\* at the end of a block (ir_code.rs 278-292), so the instructions of the next
\* block are given the offsets of the previous one again; here every
\* instruction writes slot 0 or slot 1
OptReuse ==
    {Ins("Copy", <<ValNum(5)>>), Ins("Input", <<>>),
     Ins("Add", <<ValNum(5), ValNum(0)>>), Ins("Sub", <<Slot0, ValNum(1)>>),
     Ins("Mul", <<Slot0, Slot0>>), InsCall(7, <<Slot0>>)}

MkReuse(inss, offs) ==
    [k \in 1..Len(inss) |-> Entry(inss[k], SomeDest(offs[k], 1), offs[k] + 1)]

OptReuseCodes ==
    UNION {{MkReuse(inss, offs) : inss \in [1..n -> OptReuse], offs \in [1..n -> {0, 1}]} :
           n \in 1..MaxReuse}

OptCodes == {MkCode(inss) : inss \in SeqsUpTo(OptWithDest \cup OptNoDest, MaxCode)}
                \cup OptReuseCodes

InitOpt ==
    /\ stage = "opt"
    /\ code \in OptCodes
    /\ oi = 1
    /\ optimized = <<>>
    /\ known = NoVars
    /\ recorded = <<>>
    /\ oresult = Running
    /\ gast = [ast |-> EmptyAst, statics |-> <<>>]
    /\ gen = NoGen
    /\ input = <<>>
    /\ tokens = <<>>
    /\ i = 0
    /\ ifs = <<>>
    /\ declared = {}
    /\ result = Running
    /\ ast0 = EmptyAst
    /\ ast = EmptyAst
    /\ pc = "idle"
    /\ presult = Running

NextOpt ==
    \/ OptIdentity
    \/ OptAnnihilation
    \/ OptSquaring
    \/ OptNegation
    \/ OptInput
    \/ OptCheck
    \/ OptTernaryIf
    \/ OptCall
    \/ OptTodo
    \/ OptReturn

SpecOpt == InitOpt /\ [][NextOpt]_vars

----------------------------------------------------------------------------
(* Claims about optimize                                                   *)

OptDone == stage = "opt" /\ oresult # Running
OptReturned == stage = "opt" /\ oresult = Ok

\* executing an instruction list whose operands are literals: every
\* instruction writes what it computes to its destination offset
RECURSIVE Exec(_, _, _)
Exec(list, k, mem) ==
    IF k > Len(list) THEN mem
    ELSE Exec(list, k + 1, [mem EXCEPT ![list[k].dest[1]] = Eval(list[k].ins)])

\* every instruction is arithmetic over literals and has a destination
Constants(list) ==
    \A k \in 1..Len(list) :
        /\ list[k].ins.op \in Foldable
        /\ list[k].dest # NoDest
        /\ \A j \in 1..Len(list[k].ins.args) : list[k].ins.args[j].v = "Num"

InitialMemory(v) == [off \in 0..Len(code) |-> ValNum(v)]

\* C13: for an instruction list over literals, executing the list and
\* executing optimize(list) from the same initial memory leave the same
\* contents at every destination offset.
C13_ConstantsPreserved ==
    (OptReturned /\ Constants(code)) =>
        \A v \in {0, 9} : \A k \in 1..Len(code) :
            Exec(code, 1, InitialMemory(v))[code[k].dest[1]]
                = Exec(optimized, 1, InitialMemory(v))[code[k].dest[1]]

\* C14: optimize returns a list of the same length whose i-th instruction has
\* the destination and cursor snapshot of the i-th input instruction.
C14_SameLengthSameDestinations ==
    OptReturned =>
        /\ Len(optimized) = Len(code)
        /\ \A k \in 1..Len(code) :
              optimized[k].dest = code[k].dest /\ optimized[k].cur = code[k].cur

\* C15: for every input instruction Mul(x, Num(0)) with destination d the
\* optimized list holds Copy(Num(0)) with the destination d.
C15_AnnihilationEmitsCopy ==
    OptReturned =>
        \A k \in 1..Len(code) :
            IsAnnihilation(code[k].ins) =>
                \E j \in 1..Len(optimized) :
                    optimized[j] = [code[k] EXCEPT !.ins = Ins("Copy", <<ValNum(0)>>)]

\* C18: on Input, If, While, EndIf, EndWhile and Else the optimizer goes on
\* normally, emits the instruction unchanged with its destination, and leaves
\* its map of known values as it was.
C18_Passthrough ==
    [][(InLoop /\ Current.ins.op \in {"Input", "If", "While", "EndIf", "EndWhile", "Else"})
          => /\ oresult' = Running
             /\ optimized' = Append(optimized, Current)
             /\ known' = known]_vars

\* C19: on Call(f, args) the optimizer emits one Call(f, args') with the same
\* function id and as many arguments in the same order, each the original
\* operand or, for an Index operand with a known non-Index value, that value.
C19_CallForwarded ==
    [][(InLoop /\ Current.ins.op = "Call")
          => /\ oresult' = Running
             /\ Len(optimized') = Len(optimized) + 1
             /\ LET out == optimized'[Len(optimized')]
                IN  /\ out.ins.op = "Call"
                    /\ out.ins.m = Current.ins.m
                    /\ out.dest = Current.dest
                    /\ Len(out.ins.args) = Len(Current.ins.args)
                    /\ \A k \in 1..Len(Current.ins.args) :
                          out.ins.args[k] = Substitute(Current.ins.args[k])]_vars

----------------------------------------------------------------------------
(* Claims about the shape of the generated stream                          *)

\* the markers of a stream are well bracketed: If(c, m, e) opens a frame
\* whose 2-byte slot overlaps the slot of no frame still open,
\* Else(m) is the only Else of the innermost open frame and that frame has
\* e = TRUE, EndIf(m, e) closes the innermost open frame, after its Else
\* exactly when e = TRUE, and no frame is left open
RECURSIVE IfNesting(_, _, _)
IfNesting(list, k, open) ==
    IF k > Len(list) THEN open = <<>>
    ELSE LET ins == list[k].ins
             top == open[Len(open)]
         IN  CASE ins.op = "If" ->
                      /\ \A f \in 1..Len(open) :
                            open[f].m + 2 <= ins.m \/ ins.m + 2 <= open[f].m
                      /\ IfNesting(list, k + 1,
                                   Append(open, [m |-> ins.m, e |-> ins.e, else_ |-> FALSE]))
               [] ins.op = "Else" ->
                      /\ open # <<>>
                      /\ top.m = ins.m /\ top.e /\ ~top.else_
                      /\ IfNesting(list, k + 1,
                                   [open EXCEPT ![Len(open)].else_ = TRUE])
               [] ins.op = "EndIf" ->
                      /\ open # <<>>
                      /\ top.m = ins.m /\ top.e = ins.e /\ top.else_ = top.e
                      /\ IfNesting(list, k + 1, SubSeq(open, 1, Len(open) - 1))
               [] OTHER -> IfNesting(list, k + 1, open)

\* the positions of the If instructions of a stream
IfsOf(list) == {k \in 1..Len(list) : list[k].ins.op = "If"}

OnlyOp(list, op) == CHOOSE k \in 1..Len(list) : list[k].ins.op = op

\* C22: for a while loop While(c) and EndWhile(c) name the same slot c; when
\* the condition is a literal, one Copy of it into c precedes While and every
\* instruction between While and EndWhile belongs to the body (none writes
\* c); when the condition is computed by an operator, the instruction before
\* EndWhile is a Copy into c.
C22_WhileConditionSlot ==
    (GenAccepted /\ GenStmt.kind = "While") =>
        LET list == gen.instructions
            w == OnlyOp(list, "While")
            ew == OnlyOp(list, "EndWhile")
            c == list[w].ins.args[1]
        IN  /\ w < ew
            /\ list[ew].ins.args = <<c>>
            /\ c.v = "Index"
            /\ GenStmt.kids[1].kind = "Boolean" =>
                  /\ list[w - 1].ins.op = "Copy"
                  /\ list[w - 1].ins.args[1].v = "Bool"
                  /\ list[w - 1].dest = SomeDest(c.n, 1)
                  /\ \A k \in (w + 1)..(ew - 1) :
                        list[k].dest = NoDest \/ list[k].dest[1] # c.n
            /\ GenStmt.kids[1].kind \in {"BinaryOp", "UnaryOp"} =>
                  /\ list[ew - 1].ins.op = "Copy"
                  /\ list[ew - 1].dest = SomeDest(c.n, 1)

\* the last statement of the program
GenTail == gast.ast.kids[Len(GenDecls) + 2]

\* the environment after the declarations
DeclVars == MakeEach(GenDecls, 1, StaticEach(gast.statics, 1, GenStart).st).st.vars

\* C23: a successful reassignment `x = e` ends with one Copy whose
\* destination is the offset of the binding of x with the size of the type
\* of x, also when e is of reference type or a reference `&y`; a
\* reassignment of a value of another type is a TypeError.
C23_ReassignCopiesIntoBinding ==
    /\ (GenAccepted /\ GenTail.kind = "VarReassign") =>
          LET copy == gen.instructions[Len(gen.instructions)]
              var == DeclVars[GenTail.name]
          IN  /\ copy.ins.op = "Copy"
              /\ copy.dest = SomeDest(var.n, get_size(var.ty))
    /\ (GenAccepted /\ GenStmt.kind = "VarReassign" /\ GenTail.kind = "VarAssign") =>
          LET copy == gen.instructions[Len(gen.instructions) - 1]
              var == DeclVars[GenStmt.name]
          IN  /\ copy.ins.op = "Copy"
              /\ copy.dest = SomeDest(var.n, get_size(var.ty))
    /\ (GenDone /\ GenStmt = VarReassign("x", Boolean)) => gen.result = TypeError

\* the static pre-pass of generate_code
PrePass == StaticEach(gast.statics, 1, GenStart)

\* C24: after a successful static pre-pass every declared static is bound in
\* statics to an Index value whose slot was allocated for it and is filled by
\* a Copy, whatever the type of the right-hand side, and a later StaticVar
\* node naming a declared static is lowered successfully.
C24_StaticsBound ==
    (stage = "gen" /\ PrePass.st.err = Running) =>
        /\ \A k \in 1..Len(gast.statics) :
              /\ gast.statics[k].name \in DOMAIN PrePass.st.statics
              /\ LET val == PrePass.st.statics[gast.statics[k].name]
                 IN  /\ val.v = "Index"
                     /\ val.n + get_size(val.ty) <= PrePass.st.mem
                     /\ \E j \in 1..Len(PrePass.st.instructions) :
                           /\ PrePass.st.instructions[j].ins.op = "Copy"
                           /\ PrePass.st.instructions[j].dest
                                 = SomeDest(val.n, get_size(val.ty))
        /\ (GenDone /\ GenStmt.kind = "StaticVar" /\ GenTail.kind = "VarAssign"
                    /\ \E k \in 1..Len(gast.statics) : gast.statics[k].name = GenStmt.name)
              => gen.result = Ok

\* C25: at every lowered Return and every completed Expanded the ret stack
\* holds exactly the return slots of the enclosing Expanded nodes (so its
\* depth is their number, and it is empty after a successful generate_code);
\* the Copy of a Return has the slot of the innermost enclosing Expanded as
\* destination, and the value of an Expanded is the Index of the slot it
\* pushed, allocated for it (below the cursor, above the enclosing slots).
C25_RetStackFollowsExpanded ==
    GenAccepted =>
        /\ gen.ret = <<>>
        /\ \A k \in 1..Len(gen.rets) :
              LET r == gen.rets[k]
              IN  /\ r.ret = r.encl
                  /\ r.kind = "Return" =>
                        /\ r.encl # <<>>
                        /\ gen.instructions[r.at].ins.op = "Copy"
                        /\ gen.instructions[r.at].dest = r.encl[Len(r.encl)]
                  /\ r.kind = "Expanded" =>
                        /\ r.val.v = "Index"
                        /\ \E j \in 1..(k - 1) :
                              /\ gen.rets[j].kind = "Return"
                              /\ gen.rets[j].encl = Append(r.encl, <<r.val.n, get_size(r.val.ty)>>)
                        /\ \A f \in 1..Len(r.encl) : r.encl[f][1] + r.encl[f][2] <= r.val.n

\* an Expanded nested in an Expanded was lowered: a Return at depth 2, then
\* a Return at depth 1
C25_WitnessNestedExpanded ==
    /\ GenAccepted
    /\ \E j, k \in 1..Len(gen.rets) :
          /\ j < k
          /\ gen.rets[j].kind = "Return" /\ Len(gen.rets[j].ret) = 2
          /\ gen.rets[k].kind = "Return" /\ Len(gen.rets[k].ret) = 1

----------------------------------------------------------------------------
(* Compile-time conversion of literals: `let y = <literal> as T;` for      *)
(* every literal of the three literal types and every literal target type  *)

ConvLiterals ==
    {Lit("Number", n) : n \in 0..255}
      \cup {Node("Boolean", b, <<>>) : b \in {"true", "false"}}
      \cup {Lit("Char", c) : c \in 0..255}

ConvPrograms ==
    {[ast |-> Statements(<<VarAssign("y", Converted(lit, t), "")>>), statics |-> <<>>] :
        lit \in ConvLiterals, t \in {TyNumber, TyBoolean, TyChar}}

InitConv ==
    /\ stage = "gen"
    /\ gast \in ConvPrograms
    /\ gen = NoGen
    /\ input = <<>>
    /\ tokens = <<>>
    /\ i = 0
    /\ ifs = <<>>
    /\ declared = {}
    /\ result = Running
    /\ ast0 = EmptyAst
    /\ ast = EmptyAst
    /\ pc = "idle"
    /\ presult = Running
    /\ code = <<>>
    /\ oi = 0
    /\ optimized = <<>>
    /\ known = <<>>
    /\ recorded = <<>>
    /\ oresult = Running

NextConv == GenerateCode

SpecConv == InitConv /\ [][NextConv]_vars

\* the literal that is converted, its value, and the target type
ConvLiteral == gast.ast.kids[1].kids[1].kids[1]
ConvTarget == gast.ast.kids[1].kids[1].ty
ConvNumber == IF ConvLiteral.params[1] < 128 THEN ConvLiteral.params[1]
              ELSE ConvLiteral.params[1] - 256

\* the value the table gives for the literal and the target type
ConvTable ==
    CASE ConvLiteral.kind = "Number" /\ ConvTarget = TyBoolean -> ValBool(ConvNumber # 0)
      [] ConvLiteral.kind = "Number" /\ ConvTarget = TyChar -> ValChar(ConvNumber + 128)
      [] ConvLiteral.kind = "Number" /\ ConvTarget = TyNumber -> ValNum(ConvNumber)
      [] ConvLiteral.kind = "Boolean" /\ ConvTarget = TyBoolean ->
            ValBool(ConvLiteral.name = "true")
      [] ConvLiteral.kind = "Boolean" /\ ConvTarget = TyChar ->
            ValChar(IF ConvLiteral.name = "true" THEN 1 ELSE 0)
      [] ConvLiteral.kind = "Boolean" /\ ConvTarget = TyNumber ->
            ValNum(IF ConvLiteral.name = "true" THEN 1 ELSE 0)
      [] ConvLiteral.kind = "Char" /\ ConvTarget = TyBoolean ->
            ValBool(ConvLiteral.params[1] # 0)
      [] ConvLiteral.kind = "Char" /\ ConvTarget = TyChar -> ValChar(ConvLiteral.params[1])
      [] ConvLiteral.kind = "Char" /\ ConvTarget = TyNumber ->
            ValNum(ConvLiteral.params[1] - 128)

\* C26: the conversion of a literal gives the value of the table (Number n
\* to Bool n # 0, to Char n + 128, Bool to Char and Number 0 or 1, Char c to
\* Bool c # 0, to Number c - 128), within the range of the target type, and
\* emits no instruction: the only instruction is the Copy of the converted
\* literal by the assignment.
C26_LiteralConversionTable ==
    GenDone =>
        /\ gen.result = Ok
        /\ Len(gen.instructions) = 1
        /\ gen.instructions[1].ins = Ins("Copy", <<ConvTable>>)
        /\ LET out == gen.instructions[1].ins.args[1]
           IN  CASE ConvTarget = TyNumber -> out.n \in -128..127
                 [] ConvTarget = TyChar -> out.n \in 0..255
                 [] ConvTarget = TyBoolean -> out.n \in {0, 1}

\* the Char literal 255 was converted to the Number 127 and the Number
\* literal -128 to the Char 0
C26_WitnessExtremes ==
    /\ GenDone
    /\ \/ /\ ConvLiteral = Lit("Char", 255) /\ ConvTarget = TyNumber
          /\ gen.instructions[1].ins.args[1] = ValNum(127)
       \/ /\ ConvLiteral = Lit("Number", 128) /\ ConvTarget = TyChar
          /\ gen.instructions[1].ins.args[1] = ValChar(0)

----------------------------------------------------------------------------
(* Parser::statement on assignments: the statement, assignment, expression *)
(* and atom methods over the tokens of assignable targets, operators,      *)
(* numbers, identifiers, brackets and parentheses. A parser position is    *)
(* token_index + 1; a result is the node, the position and the error.      *)

ASSIGNMENT_OPERATORS ==
    {"=", "-=", "+=", "*=", "/=", "%=", "<<=", ">>=", "&=", "|=", "^=", "**=",
     "!&|=", "&&=", "||="}

\* Token::un_augmented, on the token's operator
un_augmented(op) ==
    CASE op = "+=" -> "+" [] op = "-=" -> "-" [] op = "*=" -> "*" [] op = "/=" -> "/"
      [] op = "%=" -> "%" [] op = "<<=" -> "<<" [] op = ">>=" -> ">>" [] op = "^=" -> "^"
      [] op = "&=" -> "&" [] op = "|=" -> "|" [] op = "**=" -> "**" [] op = "!&|=" -> "!&|"
      [] op = "&&=" -> "&&" [] op = "||=" -> "||"
      [] OTHER -> op

SyntaxError == Err("SyntaxError", "")

\* self.current_token: advance() leaves it alone once the index is past the end
current_token(ts, k) == ts[IF k <= Len(ts) THEN k ELSE Len(ts)]
IsOp(t, ops) == t.kind = "Op" /\ t.val \in ops
\* self.peek_type() is one of ops
PeekIs(ts, k, ops) == k + 1 <= Len(ts) /\ IsOp(ts[k + 1], ops)

Parsed(node, k) == [node |-> node, i |-> k, err |-> Running]
ParseErr(k, e) == [node |-> NoneNode, i |-> k, err |-> e]
\* the `?` operator of the parser
Then(r, F(_, _)) == IF r.err # Running THEN r ELSE F(r.node, r.i)

\* the operators of the binary_op call of each method: expression,
\* comparison, bitwise, arithmetic, term, power
LevelOps ==
    [expression |-> {"&&", "||", "!&|"},
     comparison |-> {"==", "!=", "<", ">", "<=", ">="},
     bitwise |-> {"&", "|", "^", "<<", ">>"},
     arithmetic |-> {"+", "-"},
     term |-> {"*", "/", "%"},
     power |-> {"**"}]
\* func1 = func2 of each binary_op call
LevelSub ==
    [expression |-> "comparison", comparison |-> "bitwise", bitwise |-> "arithmetic",
     arithmetic |-> "term", term |-> "factor", power |-> "call"]

RECURSIVE ParseAt(_, _, _)

\* the while loop of Parser::binary_op
RECURSIVE binary_op(_, _, _, _)
binary_op(ts, left, k, level) ==
    IF IsOp(current_token(ts, k), LevelOps[level])
      THEN Then(ParseAt(ts, k + 1, LevelSub[level]),
                LAMBDA right, k2 :
                    binary_op(ts, BinaryOp(current_token(ts, k).val, left, right), k2, level))
      ELSE Parsed(left, k)

\* Parser::atom
atom(ts, k) ==
    LET token == current_token(ts, k)
    IN  CASE token.kind = "Kw" /\ token.val \in {"true", "false"} ->
                Parsed(Node("Boolean", token.val, <<>>), k + 1)
          [] token.kind = "Num" -> Parsed(Node("Number", token.val, <<>>), k + 1)
          [] token.kind = "Eol" -> Parsed(NoneNode, k + 1)
          [] token.kind = "Id" ->
                IF IsOp(current_token(ts, k + 1), {"["})
                  THEN Then(ParseAt(ts, k + 2, "expression"),
                            LAMBDA index, k2 :
                                IF ~IsOp(current_token(ts, k2), {"]"})
                                  THEN ParseErr(k2, SyntaxError)
                                  ELSE Parsed(Index(token.val, index), k2 + 1))
                  ELSE Parsed(VarAccess(token.val), k + 1)
          [] IsOp(token, {"("}) ->
                IF IsOp(current_token(ts, k + 1), {")"}) THEN Parsed(NoneNode, k + 2)
                ELSE Then(ParseAt(ts, k + 1, "expression"),
                          LAMBDA node, k2 :
                              IF ~IsOp(current_token(ts, k2), {")"})
                                THEN ParseErr(k2, SyntaxError)
                                ELSE Parsed(node, k2 + 1))
          [] IsOp(token, {"*"}) ->
                Then(ParseAt(ts, k + 1, "atom"), LAMBDA node, k2 : Parsed(Deref(node), k2))
          [] IsOp(token, {"**"}) ->
                Then(ParseAt(ts, k + 1, "atom"),
                     LAMBDA node, k2 : Parsed(Deref(Deref(node)), k2))
          [] IsOp(token, {"&"}) ->
                Then(ParseAt(ts, k + 1, "atom"), LAMBDA node, k2 : Parsed(Ref(node), k2))
          [] IsOp(token, {"&&"}) ->
                Then(ParseAt(ts, k + 1, "atom"), LAMBDA node, k2 : Parsed(Ref(Ref(node)), k2))
          [] OTHER -> ParseErr(k, SyntaxError)

\* Parser::expression, comparison, bitwise, arithmetic, term, factor, power,
\* call (without calls and struct constructors) and atom
ParseAt(ts, k, method) ==
    CASE method = "comparison" /\ IsOp(current_token(ts, k), {"!"}) ->
            Then(ParseAt(ts, k + 1, "comparison"),
                 LAMBDA node, k2 : Parsed(UnaryOp("!", node), k2))
      [] method = "factor" ->
            IF IsOp(current_token(ts, k), {"-", "~", "++", "--"})
              THEN Then(ParseAt(ts, k + 1, "factor"),
                        LAMBDA node, k2 : Parsed(UnaryOp(current_token(ts, k).val, node), k2))
              ELSE ParseAt(ts, k, "power")
      [] method = "call" ->
            IF current_token(ts, k).kind = "Id" /\ IsOp(current_token(ts, k + 1), {"(", "{"})
              THEN ParseErr(k + 1, Err("Unmodelled", "call or struct constructor"))
            \* self.tokens[self.token_index] past the end
            ELSE IF k > Len(ts) THEN ParseErr(k, Panic)
            ELSE atom(ts, k)
      [] method = "atom" -> atom(ts, k)
      [] OTHER ->
            Then(ParseAt(ts, k, LevelSub[method]),
                 LAMBDA left, k2 : binary_op(ts, left, k2, method))

expression(ts, k) == ParseAt(ts, k, "expression")

\* Parser::assignment(init = false)
assignment(ts, k) ==
    LET token == current_token(ts, k)
        op == current_token(ts, k + 1)
    IN  IF token.kind # "Id" THEN ParseErr(k, SyntaxError)
        ELSE IF IsOp(op, {"="})
          THEN Then(expression(ts, k + 2),
                    LAMBDA right, k2 : Parsed(VarReassign(token.val, right), k2))
        ELSE IF IsOp(op, ASSIGNMENT_OPERATORS)
          THEN Then(expression(ts, k + 2),
                    LAMBDA right, k2 :
                        Parsed(VarReassign(token.val,
                                           BinaryOp(un_augmented(op.val),
                                                    VarAccess(token.val), right)), k2))
        ELSE ParseErr(k + 1, SyntaxError)

\* Parser::statement, the arm `Identifier` followed by `[`
IndexStatement(ts, idx) ==
    LET token == current_token(ts, idx)
    IN  Then(expression(ts, idx + 2),
             LAMBDA index, k :
                 LET op == current_token(ts, k + 1)
                 IN  IF ~IsOp(current_token(ts, k), {"]"}) THEN ParseErr(k, SyntaxError)
                     ELSE IF ~IsOp(op, ASSIGNMENT_OPERATORS) THEN expression(ts, idx)
                     ELSE IF IsOp(op, {"="})
                       THEN Then(expression(ts, k + 2),
                                 LAMBDA right, k2 :
                                     Parsed(IndexAssign(token.val, index, right), k2))
                     ELSE Then(expression(ts, k + 2),
                               LAMBDA right, k2 :
                                   Parsed(IndexAssign(token.val, index,
                                                      BinaryOp(un_augmented(op.val),
                                                               VarAccess(token.val), right)),
                                          k2)))

\* Parser::statement, the arms `*` and `**`
DerefStatement(ts, idx) ==
    Then(expression(ts, idx),
         LAMBDA node, k :
             LET op == current_token(ts, k)
             IN  IF ~IsOp(op, ASSIGNMENT_OPERATORS) THEN expression(ts, idx)
                 ELSE IF IsOp(op, {"="})
                   THEN Then(expression(ts, k + 1),
                             LAMBDA right, k2 : Parsed(DerefAssign(node, right), k2))
                 ELSE Then(expression(ts, k + 1),
                           LAMBDA right, k2 :
                               Parsed(DerefAssign(node,
                                                  BinaryOp(un_augmented(op.val),
                                                           Deref(node), right)), k2)))

\* Parser::statement without the keyword and block arms
RECURSIVE statement(_, _)
statement(ts, idx) ==
    LET token == current_token(ts, idx)
    IN  CASE token.kind = "Id" /\ PeekIs(ts, idx, ASSIGNMENT_OPERATORS) -> assignment(ts, idx)
          [] token.kind = "Id" /\ PeekIs(ts, idx, {"["}) -> IndexStatement(ts, idx)
          [] IsOp(token, {"*", "**"}) -> DerefStatement(ts, idx)
          \* advance() at the last token leaves current_token on the Eol
          [] token.kind = "Eol" ->
                IF idx < Len(ts) THEN statement(ts, idx + 1) ELSE ParseErr(idx, Panic)
          [] OTHER -> expression(ts, idx)

----------------------------------------------------------------------------
(* Assignments handed to Parser::statement: `target op= rhs` in tokens and *)
(* `target = target op rhs` in input, parsed one after the other           *)

StmtTargets ==
    {<<TT("Id", "x")>>,
     <<TT("Id", "a"), TT("Op", "["), TT("Num", "1"), TT("Op", "]")>>,
     <<TT("Op", "*"), TT("Id", "p")>>}
StmtRights ==
    {<<TT("Num", "1")>>,
     <<TT("Id", "y")>>,
     <<TT("Op", "("), TT("Num", "1"), TT("Op", "+"), TT("Id", "y"), TT("Op", ")")>>}
StmtEnd == <<TT("Eol", ";"), TT("Eof", "")>>

Augmented(target, op, right) == target \o <<TT("Op", op)>> \o right \o StmtEnd
Explicit(target, op, right) ==
    target \o <<TT("Op", "=")>> \o target \o <<TT("Op", un_augmented(op))>> \o right \o StmtEnd

InitStmt ==
    /\ stage = "stmt"
    /\ \E target \in StmtTargets, right \in StmtRights, op \in ASSIGNMENT_OPERATORS \ {"="} :
          /\ tokens = Augmented(target, op, right)
          /\ input = Explicit(target, op, right)
    /\ i = 0
    /\ ifs = <<>>
    /\ declared = {}
    /\ result = Running
    /\ ast0 = EmptyAst
    /\ ast = EmptyAst
    /\ pc = "idle"
    /\ presult = Running
    /\ IrIdle

\* statement() on the augmented assignment
ParseAugmented ==
    /\ stage = "stmt"
    /\ presult = Running
    /\ LET r == statement(tokens, 1)
       IN  /\ ast' = r.node
           /\ presult' = IF r.err = Running THEN Ok ELSE r.err
    /\ UNCHANGED <<stage, input, tokens, i, ifs, declared, result, ast0, pc, genvars, optvars>>

\* statement() on the explicit assignment
ParseExplicit ==
    /\ stage = "stmt"
    /\ result = Running
    /\ LET r == statement(input, 1)
       IN  /\ ast0' = r.node
           /\ result' = IF r.err = Running THEN Ok ELSE r.err
    /\ UNCHANGED <<stage, input, tokens, i, ifs, declared, ast, pc, presult, genvars, optvars>>

NextStmt == ParseAugmented \/ ParseExplicit

SpecStmt == InitStmt /\ [][NextStmt]_vars

\* C27: parsing `target op= rhs` gives the AST that parsing
\* `target = target op rhs` gives, for every augmented operator, for a
\* variable, an indexed element and a dereference as target.
C27_AugmentedDesugared ==
    (stage = "stmt" /\ presult # Running /\ result # Running) =>
        /\ presult = Ok
        /\ result = Ok
        /\ ast = ast0


----------------------------------------------------------------------------
(* Claims about the directives left in or dropped from the output          *)

\* C28: whenever preprocess returns Ok, the returned token list holds no
\* preprocessor-directive token: every directive of the input, or brought
\* in by a replacement, was scanned and executed or dropped with its region.
C28_NoDirectiveInOutput ==
    (stage = "pre" /\ result = Ok) =>
        \A k \in 1..Len(tokens) : tokens[k].kind # "Pre"

\* some open conditional frame, innermost or not, is collecting a region
\* that will be dropped (Some(start) on the ifs stack)
EnclosingInactive == \E k \in 1..Len(ifs) : ifs[k].some

\* C29: a directive inside a region that is dropped has no effect: while any
\* enclosing frame is inactive, a declare directive adds nothing to the
\* declared set and an error directive never ends preprocess with
\* PreprocessorError.
C29_DroppedRegionInert ==
    [][(stage = "pre" /\ result.kind = "Running" /\ EnclosingInactive) =>
         /\ declared' = declared
         /\ ~(result'.kind = "Err" /\ result'.etype = "PreprocessorError")]_vars

----------------------------------------------------------------------------
(* Claim about the known values of the optimizer                           *)

\* the most recent input instruction before the current one whose
\* destination offset is off (0 when there is none)
LastWriter(off) ==
    LET ws == {k \in 1..(oi - 1) : code[k].dest # NoDest /\ code[k].dest[1] = off}
    IN  IF ws = {} THEN 0 ELSE CHOOSE k \in ws : \A j \in ws : j <= k

\* the j-th operand of the current instruction is an Index whose slot has a
\* known value, and this step puts that value in its place
Replaces(j) ==
    LET a == Current.ins.args[j]
    IN  /\ a.v = "Index" /\ KnownAt(a) /\ oresult' = Running
        /\ CASE IsIdentity(Current.ins) -> j = 1
             [] IsAnnihilation(Current.ins) -> FALSE
             [] IsSquaring(Current.ins) \/ IsNegation(Current.ins) -> j = 1
             [] Current.ins.op = "TernaryIf" -> Last(optimized').ins.args[j] # a
             [] Current.ins.op = "Call" -> TRUE
             [] OTHER -> known[a.n].v # "Index"

\* C30: the known values are never stale: whenever optimize replaces an
\* Index(off) operand by a known value, that value was recorded for the most
\* recent preceding input instruction whose destination offset is off; no
\* instruction writing off lies between the recording and the use.
C30_KnownNeverStale ==
    [][InLoop =>
         \A j \in 1..Len(Current.ins.args) :
             Replaces(j) => recorded[Current.ins.args[j].n] = LastWriter(Current.ins.args[j].n)]_vars

============================================================================
